---- MODULE Spec2Model ----
(***************************************************************************)
(* Model of the intercepted-transaction, intent-resolution and             *)
(* reconciliation engine of esp-rainmaker-app-cdf-ts: Schedule / Scene     *)
(* entities, ScheduleStore / SceneStore, and the Node Registry's cached    *)
(* per-node fragment lists.                                                *)
(*                                                                         *)
(* Encoding of JavaScript values.  Scalars are strings: the two sentinels  *)
(* Null ("null") and Undef ("undefined"), names and info texts, numbers as *)
(* numerals ("0", "1"), booleans as "true"/"false", validity objects as    *)
(* opaque tokens ("v1", "v2").  A node id n in 1..NumNodes stands for the  *)
(* string "n<n>".  An action blob is a function device -> value; an action *)
(* map is a function from the hosting nodes to blobs (a node that is not   *)
(* in the DOMAIN has no key in the JavaScript object).  A trigger is a     *)
(* record [m, d, rsec, ord]: ord is the insertion order of its keys, which *)
(* JSON.stringify preserves.                                               *)
(***************************************************************************)
EXTENDS Integers, Sequences, FiniteSets, TLC

\* ------------------------------------------------------------------ bounds
NumNodes == 2
MaxOps == 2

Nodes == 1..NumNodes

\* --------------------------------------------------------------- constants
Null == "null"
Undef == "undefined"
SUCCESS == "success"
FAILURE == "failure"

ADD == "add"
EDIT == "edit"
REMOVE == "remove"
ENABLE == "enable"
DISABLE == "disable"
ACTIVATE == "activate"
NO_CHANGE == "no_change"

\* JavaScript truthiness of an encoded scalar (the operand of `x || d`, `!x`).
Falsy(x) == x \in {Null, Undef, "", "0", "false"}

\* x || d
OrElse(x, d) == IF Falsy(x) THEN d ELSE x

\* ---------------------------------------------------------------- helpers
Range(s) == {s[i] : i \in 1..Len(s)}

RECURSIVE SeqOfSet(_)
\* the ascending enumeration of a finite set of node ids
SeqOfSet(S) ==
  IF S = {} THEN <<>>
  ELSE LET m == CHOOSE x \in S : \A y \in S : x <= y
       IN <<m>> \o SeqOfSet(S \ {m})

RECURSIVE SumOver(_, _)
SumOver(f, S) ==
  IF S = {} THEN 0
  ELSE LET x == CHOOSE y \in S : TRUE
       IN f[x] + SumOver(f, S \ {x})

\* Object.keys(blob).length
DeviceCount(blob) == Cardinality(DOMAIN blob)

\* the reduce of createSchedule / updateScheduleInterceptor.action over
\* Object.values(map): the number of device entries of all blobs of a map
CountDevices(map) == SumOver([n \in DOMAIN map |-> DeviceCount(map[n])], DOMAIN map)

\* delete obj[key]
DeleteKey(f, k) == [x \in (DOMAIN f) \ {k} |-> f[x]]

\* obj[key] = value
SetKey(f, k, v) == [x \in (DOMAIN f) \cup {k} |-> IF x = k THEN v ELSE f[x]]

EmptyMap == [x \in {} |-> 0]

\* array.splice(i, 1) with a 1-based index i of an existing element
RemoveAt(s, i) == [j \in 1..(Len(s) - 1) |-> IF j < i THEN s[j] ELSE s[j + 1]]

\* JSON.stringify of a trigger object: the keys in insertion order, a key whose
\* value is undefined left out
TriggerKeys(t) == IF t.ord = 0 THEN <<"m", "d", "rsec">> ELSE <<"rsec", "d", "m">>

RECURSIVE StringifyKeys(_, _)
StringifyKeys(t, ks) ==
  IF ks = <<>> THEN <<>>
  ELSE (IF t[Head(ks)] = Undef THEN <<>> ELSE <<Head(ks), t[Head(ks)]>>)
       \o StringifyKeys(t, Tail(ks))

JSONStringify(t) == StringifyKeys(t, TriggerKeys(t))

\* deep equality of two trigger objects (key order is no part of it)
TriggerDeepEqual(t, u) == t.m = u.m /\ t.d = u.d /\ t.rsec = u.rsec

\* compareArrays(array1, array2) without a key
compareArrays(array1, array2) ==
  IF Len(array1) = 0 THEN TRUE
  ELSE IF Len(array2) = 0 THEN FALSE
  ELSE \A i \in 1..Len(array1) :
         \E j \in 1..Len(array2) : JSONStringify(array1[i]) = JSONStringify(array2[j])

\* isEqual(a, b) on encoded scalars and validity tokens, and on action blobs:
\* a === b, or both objects with the same keys and recursively equal values
isEqual(a, b) == a = b

\* ------------------------------------------------------------------ values
T1 == [m |-> "420", d |-> "127", rsec |-> Undef, ord |-> 0]
\* the same trigger as T1, its keys inserted in another order
T1r == [m |-> "420", d |-> "127", rsec |-> Undef, ord |-> 1]
T2 == [m |-> "480", d |-> "31", rsec |-> Undef, ord |-> 0]
\* a trigger that has neither m nor rsec
TBad == [m |-> Undef, d |-> "127", rsec |-> Undef, ord |-> 0]

B1 == "light" :> "on"
B2 == "light" :> "off"
B3 == ("light" :> "on") @@ ("fan" :> "off")
\* the value of map[nodeId] for a node that has no key in the map
NoBlob == "undefined" :> "undefined"

Lookup(map, n) == IF n \in DOMAIN map THEN map[n] ELSE NoBlob

\* -------------------------------------------------------- Schedule entity
\* a validateSchedule that does not look at the triggers
validateScheduleNoTriggers(name, triggers, action) ==
  /\ ~Falsy(name)
  /\ DOMAIN action # {}

\* validateSchedule: TRUE iff the constructor does not throw
validateSchedule(name, triggers, action) ==
  /\ ~Falsy(name)
  /\ \A i \in 1..Len(triggers) : triggers[i].m # Undef \/ triggers[i].rsec # Undef
  /\ DOMAIN action # {}

\* new Schedule(schedule, rootStore), for data that passes validateSchedule
Schedule(schedule) ==
  [id |-> schedule.id,
   name |-> schedule.name,
   nodes |-> schedule.nodes,
   enabled |-> OrElse(schedule.enabled, "false"),
   triggers |-> schedule.triggers,
   action |-> schedule.action,
   devicesCount |-> schedule.devicesCount,
   info |-> OrElse(schedule.info, Null),
   flags |-> OrElse(schedule.flags, Null),
   validity |-> OrElse(schedule.validity, Null),
   outOfSyncMeta |-> schedule.outOfSyncMeta,
   callbackUpdateOperation |-> EmptyMap]

\* -------------------------------------------------------------- Scene entity
\* the constructor's check: TRUE iff it does not throw
validateScene(id, name) == ~Falsy(id) /\ ~Falsy(name)

\* new Scene(scene, rootStore), for data that passes the check
Scene(scene) ==
  [id |-> scene.id,
   name |-> scene.name,
   info |-> scene.info,
   nodes |-> scene.nodes,
   actions |-> scene.actions,
   devicesCount |-> scene.devicesCount,
   callbackUpdateOperation |-> EmptyMap]

\* ------------------------------------------------------------ Fragment Merge
\* typeof of an encoded scalar of the shared field `key`
TypeOf(key, v) ==
  IF v = Undef THEN "undefined"
  ELSE IF v = Null THEN "object"
  ELSE IF key = "validity" THEN "object"
  ELSE IF key = "flags" THEN "number"
  ELSE IF key = "enabled" THEN "boolean"
  ELSE "string"

SyncKeys == <<"name", "enabled", "triggers", "validity", "flags", "info">>

\* one iteration of the keys.forEach of isScheduleInSync: is `key` out of sync
OutOfSyncKey(existingSchedule, scheduleData, key) ==
  IF key = "triggers"
  THEN ~compareArrays(existingSchedule.triggers, scheduleData.triggers)
  ELSE LET existingValue == existingSchedule[key]
           newValue == scheduleData[key]
       IN IF TypeOf(key, existingValue) = "object" /\ TypeOf(key, newValue) = "object"
          THEN existingValue # newValue
          ELSE existingValue # newValue /\ newValue # Null /\ newValue # Undef

\* isScheduleInSync: the meta of the keys that are out of sync (empty: in sync)
isScheduleInSync(existingSchedule, scheduleData) ==
  LET bad == {k \in Range(SyncKeys) : OutOfSyncKey(existingSchedule, scheduleData, k)}
  IN [k \in bad |-> scheduleData[k]]

\* the (node, fragment) pairs of a node list, in iteration order
RECURSIVE FragmentsOf(_, _)
FragmentsOf(reg, list) ==
  IF list = <<>> THEN <<>>
  ELSE [i \in 1..Len(reg[Head(list)]) |->
          [node |-> Head(list), data |-> reg[Head(list)][i]]]
       \o FragmentsOf(reg, Tail(list))

\* the body of scheduleList.forEach in #transformNodeListToSchedules
MergeScheduleFragment(acc, node, scheduleData) ==
  IF scheduleData.id \in DOMAIN acc
  THEN LET e0 == acc[scheduleData.id]
           e1 == [e0 EXCEPT !.nodes = Append(@, node),
                            !.action = SetKey(@, node, scheduleData.action),
                            !.devicesCount = @ + DeviceCount(scheduleData.action)]
           meta == isScheduleInSync(e1, scheduleData)
       IN SetKey(acc, scheduleData.id,
                 IF DOMAIN meta = {} THEN e1
                 ELSE [e1 EXCEPT !.outOfSyncMeta = SetKey(@, node, meta)])
  ELSE SetKey(acc, scheduleData.id,
              Schedule([id |-> scheduleData.id,
                        name |-> scheduleData.name,
                        nodes |-> <<node>>,
                        enabled |-> scheduleData.enabled,
                        triggers |-> scheduleData.triggers,
                        action |-> (node :> scheduleData.action),
                        devicesCount |-> DeviceCount(scheduleData.action),
                        info |-> scheduleData.info,
                        flags |-> scheduleData.flags,
                        validity |-> scheduleData.validity,
                        outOfSyncMeta |-> EmptyMap]))

\* does the constructor called for this fragment throw
ScheduleFragmentThrows(acc, node, scheduleData) ==
  /\ scheduleData.id \notin DOMAIN acc
  /\ ~validateSchedule(scheduleData.name, scheduleData.triggers,
                       node :> scheduleData.action)

RECURSIVE MergeSchedules(_, _)
\* the reduce of #transformNodeListToSchedules over the fragments that are left
MergeSchedules(acc, frags) ==
  IF frags = <<>> THEN [threw |-> FALSE, map |-> acc]
  ELSE IF ScheduleFragmentThrows(acc, Head(frags).node, Head(frags).data)
       THEN [threw |-> TRUE, map |-> acc]
       ELSE \* the next accumulator and the rest are bound as values, so that
            \* each is computed once
            CHOOSE r \in {MergeSchedules(merged, rest) :
                            merged \in {MergeScheduleFragment(acc, Head(frags).node,
                                                              Head(frags).data)},
                            rest \in {Tail(frags)}} : TRUE

\* #transformNodeListToSchedules(nodeList)
transformNodeListToSchedules(reg, list) ==
  CHOOSE r \in {MergeSchedules(EmptyMap, frags) :
                  frags \in {FragmentsOf(reg, list)}} : TRUE

\* the body of sceneList.forEach in #transformNodeListToScenes
MergeSceneFragment(acc, node, sceneData) ==
  IF sceneData.id \in DOMAIN acc
  THEN SetKey(acc, sceneData.id,
              [acc[sceneData.id] EXCEPT
                 !.nodes = Append(@, node),
                 !.actions = SetKey(@, node, sceneData.action),
                 !.devicesCount = @ + DeviceCount(sceneData.action)])
  ELSE SetKey(acc, sceneData.id,
              Scene([id |-> sceneData.id,
                     name |-> sceneData.name,
                     info |-> sceneData.info,
                     nodes |-> <<node>>,
                     actions |-> (node :> sceneData.action),
                     devicesCount |-> DeviceCount(sceneData.action)]))

SceneFragmentThrows(acc, sceneData) ==
  /\ sceneData.id \notin DOMAIN acc
  /\ ~validateScene(sceneData.id, sceneData.name)

RECURSIVE MergeScenes(_, _)
MergeScenes(acc, frags) ==
  IF frags = <<>> THEN [threw |-> FALSE, map |-> acc]
  ELSE IF SceneFragmentThrows(acc, Head(frags).data)
       THEN [threw |-> TRUE, map |-> acc]
       ELSE CHOOSE r \in {MergeScenes(merged, rest) :
                            merged \in {MergeSceneFragment(acc, Head(frags).node,
                                                           Head(frags).data)},
                            rest \in {Tail(frags)}} : TRUE

\* #transformNodeListToScenes(nodeList)
transformNodeListToScenes(reg, list) ==
  CHOOSE r \in {MergeScenes(EmptyMap, frags) :
                  frags \in {FragmentsOf(reg, list)}} : TRUE

\* nodeStore.nodeList: the nodes of the registry in its iteration order
nodeList == SeqOfSet(Nodes)

\* syncSchedulesFromNodes(nodeIds): clear(), then the merge of the registry's
\* nodes that are in nodeIds; a throwing constructor leaves the store cleared
syncSchedulesFromNodes(reg, nodeIds) ==
  LET r == transformNodeListToSchedules(reg, SelectSeq(nodeList, LAMBDA n : n \in nodeIds))
  IN IF r.threw THEN EmptyMap ELSE r.map

\* syncScenesFromNodes(): clear(), then the merge of all nodes of the registry
syncScenesFromNodes(reg) ==
  LET r == transformNodeListToScenes(reg, nodeList)
  IN IF r.threw THEN EmptyMap ELSE r.map

\* ------------------------------------------------------- Schedule operations
\* Schedule.#determineEditOperation, on the schedule `self`
ScheduleDetermineEditOperation(self, nodeId, newaction, scheduleName, triggers, info, flags, validity) ==
  LET existInOldaction == nodeId \in DOMAIN self.action
      existInNewaction == nodeId \in DOMAIN newaction
  IN IF existInOldaction /\ ~existInNewaction THEN REMOVE
     ELSE IF ~existInOldaction /\ existInNewaction THEN ADD
     ELSE IF existInOldaction /\ existInNewaction
             /\ ~isEqual(self.action[nodeId], newaction[nodeId]) THEN EDIT
     ELSE IF scheduleName # self.name THEN EDIT
     ELSE IF ~compareArrays(triggers, self.triggers) THEN EDIT
     ELSE IF info # self.info THEN EDIT
     ELSE IF flags # self.flags THEN EDIT
     ELSE IF ~isEqual(validity, self.validity) THEN EDIT
     ELSE NO_CHANGE

\* createPayload of Schedule.#generatePayload: a copy of basePayload, then the
\* three conditional assignments
createPayload(basePayload, info, flags, validity) ==
  LET p1 == IF info # Null THEN SetKey(basePayload, "info", info) ELSE basePayload
      p2 == IF flags # Null THEN SetKey(p1, "flags", flags) ELSE p1
  IN IF validity # Null THEN SetKey(p2, "validity", validity) ELSE p2

\* Schedule.#generatePayload(type, param): the object put into Schedules[0]
ScheduleGeneratePayload(type, param) ==
  IF type = ADD
  THEN createPayload([id |-> param.scheduleId, operation |-> ADD,
                      name |-> param.scheduleName, action |-> param.action,
                      info |-> param.info, triggers |-> param.triggers,
                      flags |-> param.flags, validity |-> param.validity],
                     param.info, param.flags, param.validity)
  ELSE IF type = EDIT
  THEN createPayload([id |-> param.scheduleId, name |-> param.scheduleName,
                      operation |-> EDIT, action |-> param.action,
                      info |-> param.info, triggers |-> param.triggers,
                      flags |-> param.flags, validity |-> param.validity],
                     param.info, param.flags, param.validity)
  ELSE [id |-> param.scheduleId, operation |-> type]

\* the keys of a payload object that JSON carries to the node: a key whose value
\* is undefined is dropped by the serialisation, a key whose value is null is sent
WireKeys(payload) ==
  {k \in DOMAIN payload :
     IF k = "action" THEN payload[k] # NoBlob
     ELSE IF k = "triggers" THEN TRUE
     ELSE payload[k] # Undef}

\* the destructuring defaults of Schedule.#operations
ScheduleOperationParams(self, param) ==
  [scheduleName |-> IF param.scheduleName = Undef THEN self.name ELSE param.scheduleName,
   triggers |-> param.triggers,
   action |-> param.action,
   nodes |-> param.nodes,
   info |-> IF param.info = Undef THEN self.info ELSE param.info,
   flags |-> IF param.flags = Undef THEN self.flags ELSE param.flags,
   validity |-> IF param.validity = Undef THEN self.validity ELSE param.validity]

\* #operations called without param (add, remove, enable, disable)
ScheduleNoParam(self) ==
  [scheduleName |-> Undef, triggers |-> self.triggers, action |-> self.action,
   nodes |-> self.nodes, info |-> Undef, flags |-> Undef, validity |-> Undef]

\* the operation type #operations uses for one node
ScheduleNodeOperation(self, type, p, nodeId) ==
  IF type = EDIT
  THEN ScheduleDetermineEditOperation(self, nodeId, p.action, p.scheduleName,
                                      p.triggers, p.info, p.flags, p.validity)
  ELSE type

\* a Schedule.#operations that does not drop the NO_CHANGE nodes
ScheduleOperationsKeepAll(self, type, param) ==
  LET p == ScheduleOperationParams(self, param)
      ns == Range(p.nodes)
      cls == [n \in ns |-> ScheduleNodeOperation(self, type, p, n)]
  IN [nodes |-> p.nodes,
      cls |-> cls,
      batch |-> [n \in ns |->
                   ScheduleGeneratePayload(IF cls[n] = NO_CHANGE THEN EDIT ELSE cls[n],
                     [action |-> Lookup(p.action, n), nodeId |-> n,
                      triggers |-> p.triggers, scheduleId |-> self.id,
                      scheduleName |-> p.scheduleName, info |-> p.info,
                      flags |-> p.flags, validity |-> p.validity])]]

\* a Schedule.#operations that hands every node the slice of the first node
ScheduleOperationsFirstSlice(self, type, param) ==
  LET p == ScheduleOperationParams(self, param)
      ns == Range(p.nodes)
      cls == [n \in ns |-> ScheduleNodeOperation(self, type, p, n)]
      sent == {n \in ns : cls[n] # NO_CHANGE}
  IN [nodes |-> p.nodes,
      cls |-> cls,
      batch |-> [n \in sent |->
                   ScheduleGeneratePayload(cls[n],
                     [action |-> Lookup(p.action, p.nodes[1]), nodeId |-> n,
                      triggers |-> p.triggers, scheduleId |-> self.id,
                      scheduleName |-> p.scheduleName, info |-> p.info,
                      flags |-> p.flags, validity |-> p.validity])]]

\* Schedule.#operations(type, param) up to the remote call: per node of `nodes`
\* its operation type (cls), and the payloads of the outgoing batch
ScheduleOperations(self, type, param) ==
  LET p == ScheduleOperationParams(self, param)
      ns == Range(p.nodes)
      cls == [n \in ns |-> ScheduleNodeOperation(self, type, p, n)]
      sent == {n \in ns : cls[n] # NO_CHANGE}
  IN [nodes |-> p.nodes,
      cls |-> cls,
      batch |-> [n \in sent |->
                   ScheduleGeneratePayload(cls[n],
                     [action |-> Lookup(p.action, n), nodeId |-> n,
                      triggers |-> p.triggers, scheduleId |-> self.id,
                      scheduleName |-> p.scheduleName, info |-> p.info,
                      flags |-> p.flags, validity |-> p.validity])]]

\* Object.keys({...action, ...this.action}) of #edit
EditNodes(newaction, oldaction) == SeqOfSet(DOMAIN newaction \cup DOMAIN oldaction)

\* the param Schedule.#edit passes to #operations
ScheduleEditParam(self, args) ==
  [scheduleName |-> args.name, triggers |-> args.triggers, action |-> args.action,
   nodes |-> EditNodes(args.action, self.action),
   info |-> args.info, flags |-> args.flags, validity |-> args.validity]

\* ---------------------------------------------------------- Scene operations
\* a resolver that takes the two maps in the wrong order
SceneDetermineEditOperationSwapped(self, nodeId, newActions) ==
  LET existInOldActions == nodeId \in DOMAIN newActions
      existInNewActions == nodeId \in DOMAIN self.actions
  IN IF existInOldActions /\ existInNewActions THEN EDIT
     ELSE IF existInOldActions /\ ~existInNewActions THEN REMOVE
     ELSE IF ~existInOldActions /\ existInNewActions THEN ADD
     ELSE EDIT

\* Scene.#determineEditOperation, on the scene `self`
SceneDetermineEditOperation(self, nodeId, newActions) ==
  LET existInOldActions == nodeId \in DOMAIN self.actions
      existInNewActions == nodeId \in DOMAIN newActions
  IN IF existInOldActions /\ existInNewActions THEN EDIT
     ELSE IF existInOldActions /\ ~existInNewActions THEN REMOVE
     ELSE IF ~existInOldActions /\ existInNewActions THEN ADD
     ELSE EDIT

\* Scene.#generatePayload: the object put into Scenes[0]
SceneGeneratePayload(actions, nodeId, type, sceneName, sceneId, info) ==
  IF type = ADD
  THEN [id |-> sceneId, operation |-> ADD, name |-> sceneName,
        action |-> actions, info |-> info]
  ELSE IF type = EDIT
  THEN [name |-> sceneName, id |-> sceneId, operation |-> EDIT,
        action |-> actions, info |-> info]
  ELSE [id |-> sceneId, operation |-> type]

\* a Scene.#operations that, like the Schedule's, skips a node whose action is
\* as before
SceneNodeOperationSkipEqual(self, type, actions, nodeId) ==
  IF type # EDIT THEN type
  ELSE IF nodeId \in DOMAIN self.actions /\ nodeId \in DOMAIN actions
          /\ isEqual(self.actions[nodeId], actions[nodeId])
  THEN NO_CHANGE
  ELSE SceneDetermineEditOperation(self, nodeId, actions)

\* the operation type Scene.#operations uses for one node
SceneNodeOperation(self, type, actions, nodeId) ==
  IF type = EDIT THEN SceneDetermineEditOperation(self, nodeId, actions) ELSE type

\* Scene.#operations(type, sceneName, actions, nodes, info) up to the remote
\* call; an argument that is undefined takes its default
SceneOperations(self, type, sceneName, actions, nodes, info) ==
  LET name1 == IF sceneName = Undef THEN self.name ELSE sceneName
      info1 == IF info = Undef THEN OrElse(self.info, "") ELSE info
      ns == Range(nodes)
      cls == [n \in ns |-> SceneNodeOperation(self, type, actions, n)]
  IN [nodes |-> nodes,
      cls |-> cls,
      batch |-> [n \in ns |->
                   SceneGeneratePayload(Lookup(actions, n), n, cls[n], name1,
                                        self.id, info1)]]

\* ------------------------------------------------- replay into Node Registry
\* schedules.findIndex(schedule => schedule.id === id): 0 stands for -1
FindIndex(list, id) ==
  IF \E i \in 1..Len(list) : list[i].id = id
  THEN CHOOSE i \in 1..Len(list) :
         list[i].id = id /\ \A j \in 1..(i - 1) : list[j].id # id
  ELSE 0

\* array.splice(index, 1) with the index findIndex returned: -1 counts from the
\* end of the array, so the last element is removed
SpliceFound(list, i) ==
  IF i # 0 THEN RemoveAt(list, i)
  ELSE IF Len(list) = 0 THEN list
  ELSE SubSeq(list, 1, Len(list) - 1)

\* updateNodeSchedule(param) on the cached schedules array of param.nodeId:
\* the array afterwards, or threw (a property is set on schedules[-1])
updateNodeSchedule(schedules, param) ==
  LET scheduleIndex == FindIndex(schedules, param.id)
  IN IF param.operation = EDIT
     THEN IF scheduleIndex = 0 THEN [threw |-> TRUE, list |-> schedules]
          ELSE [threw |-> FALSE,
                list |-> [schedules EXCEPT ![scheduleIndex] =
                            [@ EXCEPT !.name = param.name, !.info = param.info,
                                      !.action = param.action,
                                      !.triggers = param.triggers,
                                      !.flags = param.flags,
                                      !.validity = param.validity]]]
     ELSE IF param.operation = ADD
     THEN [threw |-> FALSE,
           list |-> Append(schedules,
                      [id |-> param.id, name |-> param.name, info |-> param.info,
                       action |-> param.action, triggers |-> param.triggers,
                       flags |-> param.flags, validity |-> param.validity,
                       enabled |-> Undef])]
     ELSE IF param.operation = REMOVE
     THEN [threw |-> FALSE, list |-> SpliceFound(schedules, scheduleIndex)]
     ELSE IF param.operation \in {ENABLE, DISABLE}
     THEN IF scheduleIndex = 0 THEN [threw |-> TRUE, list |-> schedules]
          ELSE [threw |-> FALSE,
                list |-> [schedules EXCEPT ![scheduleIndex].enabled =
                            IF param.operation = ENABLE THEN "true" ELSE "false"]]
     ELSE [threw |-> FALSE, list |-> schedules]

\* updateNodeScene(param) on the cached scenes array of param.nodeId
updateNodeScene(scenes, param) ==
  IF param.operation = EDIT
  THEN [i \in 1..Len(scenes) |->
          IF scenes[i].id = param.id
          THEN [scenes[i] EXCEPT !.name = param.name, !.info = param.info,
                                 !.action = param.action]
          ELSE scenes[i]]
  ELSE IF param.operation = ADD
  THEN Append(scenes, [id |-> param.id, name |-> param.name, info |-> param.info,
                       action |-> param.action])
  ELSE IF param.operation = REMOVE
  THEN SpliceFound(scenes, FindIndex(scenes, param.id))
  ELSE scenes

\* ------------------------------------------------------------------- state
VARIABLES
  nodeSchedules,   \* Node Registry: node -> its cached schedules array
  nodeScenes,      \* Node Registry: node -> its cached scenes array
  schedulesByID,   \* ScheduleStore._schedulesByID
  scenesByID,      \* SceneStore._scenesByID
  tx,              \* the intercepted transaction in flight, or the last one ended
  ops,             \* number of transactions started
  groupsByID,      \* GroupStore._groupsByID
  automation,      \* an automation held by the AutomationStore
  calls,           \* the interceptor invocations on groups and automations;
                   \* the schedule or scene transaction that overlaps with tx
  nodesByID        \* NodeStore._nodesByID

\* the stores of groups, automations and nodes and the invocations on them
entityVars == <<groupsByID, automation, calls, nodesByID>>

vars == <<nodeSchedules, nodeScenes, schedulesByID, scenesByID, tx, ops, entityVars>>

\* the fragments the nodes report when the stores are first synchronised:
\* schedule s1 and scene c1 on every node, s2 on the last node only, c2 on the
\* first node only
S1Fragment ==
  [id |-> "s1", name |-> "A", info |-> "i1", action |-> B1,
   triggers |-> <<T1, T2>>, flags |-> Undef, validity |-> Undef, enabled |-> "true"]
S2Fragment ==
  [id |-> "s2", name |-> "B", info |-> Undef, action |-> B3,
   triggers |-> <<T1>>, flags |-> "1", validity |-> "v1", enabled |-> Undef]
C1Fragment == [id |-> "c1", name |-> "A", info |-> "i1", action |-> B1]
C2Fragment == [id |-> "c2", name |-> "B", info |-> Undef, action |-> B3]

\* the NodeStore after the node list is first loaded: every node, as first
\* fetched
InitNodes == [n \in Nodes |-> "v1"]

InitNodeSchedules ==
  [n \in Nodes |-> IF n = NumNodes THEN <<S1Fragment, S2Fragment>> ELSE <<S1Fragment>>]
InitNodeScenes ==
  [n \in Nodes |-> IF n = 1 THEN <<C1Fragment, C2Fragment>> ELSE <<C1Fragment>>]

NoTx ==
  [pc |-> "idle", kind |-> "none", op |-> "none", id |-> "none",
   args |-> EmptyMap, hookOk |-> TRUE, context |-> EmptyMap,
   prevContext |-> EmptyMap, nodes |-> <<>>, cls |-> EmptyMap,
   batch |-> EmptyMap, called |-> FALSE, result |-> EmptyMap,
   remote |-> "none", outcome |-> "none", err |-> "none",
   reconciled |-> FALSE, rolledBack |-> 0,
   regBefore |-> EmptyMap, storeBefore |-> EmptyMap]

Init ==
  /\ nodeSchedules = InitNodeSchedules
  /\ nodeScenes = InitNodeScenes
  /\ schedulesByID = syncSchedulesFromNodes(InitNodeSchedules, Nodes)
  /\ scenesByID = syncScenesFromNodes(InitNodeScenes)
  /\ tx = NoTx
  /\ ops = 0
  /\ groupsByID = EmptyMap
  /\ automation = EmptyMap
  /\ calls = <<>>
  /\ nodesByID = InitNodes

\* ------------------------------------------------------ createInterceptor
\* the fields of an entity that hold a reference (array or object): shallowClone
\* copies the reference, so the snapshot shares these with the context
RefFields ==
  {"nodes", "triggers", "action", "actions", "outOfSyncMeta", "callbackUpdateOperation"}

\* what the snapshot prevContext = shallowClone(context) reads as once the
\* context has changed to `context`: its own copies of the scalars, the
\* context's current arrays and objects
shallowClone(prevContext, context) ==
  [f \in DOMAIN prevContext |-> IF f \in RefFields THEN context[f] ELSE prevContext[f]]

CanStart == tx.pc # "awaiting" /\ ops < MaxOps

\* obj.callbackUpdateOperation[nodeId] = operationType, for the nodes of `cls`
\* that #operations does not skip
WriteOperations(cuo, cls, skipped) ==
  [n \in DOMAIN cuo \cup {m \in DOMAIN cls : cls[m] \notin skipped} |->
     IF n \in DOMAIN cls /\ cls[n] \notin skipped THEN cls[n] ELSE cuo[n]]

\* the per-node result lists the remote call can return for a batch
Results(batch) == [DOMAIN batch -> {SUCCESS, FAILURE}]

\* the response #operations synthesises when the batch is empty
SynthesizedResponse(nodes) == [n \in Range(nodes) |-> SUCCESS]

Succeeded(result) == {n \in DOMAIN result : result[n] = SUCCESS}

\* the transaction record once the wrapped operation has run up to the remote
\* call (o: what #operations computed); the call is issued iff the batch is
\* not empty (Schedule) or always (Scene)
Awaiting(kind, op, id, args, hookOk, context, prevContext, o, called, reg, store) ==
  [pc |-> "awaiting", kind |-> kind, op |-> op, id |-> id, args |-> args,
   hookOk |-> hookOk, context |-> context, prevContext |-> prevContext,
   nodes |-> o.nodes, cls |-> o.cls, batch |-> o.batch, called |-> called,
   result |-> EmptyMap, remote |-> "pending", outcome |-> "none", err |-> "none",
   reconciled |-> FALSE, rolledBack |-> 0,
   regBefore |-> reg, storeBefore |-> store]

\* the transaction record once the wrapped operation has returned `result` and
\* the onSuccess hook has run (reconciled: onSuccess was entered; rolledBack:
\* the number of calls of the rollback hook)
Resolved(result) ==
  [tx EXCEPT !.pc = "done", !.remote = "returned", !.outcome = "resolved",
             !.result = result, !.reconciled = TRUE]

\* a catch block that issues the remote call once more
RejectedAndRetried(err) ==
  [tx EXCEPT !.remote = "pending", !.err = err]

\* ... once the remote call has thrown and the catch block has run
Rejected(err) ==
  [tx EXCEPT !.pc = "done", !.remote = "threw", !.outcome = "rejected", !.err = err,
             !.rolledBack = @ + 1]

\* ... once the wrapped operation has returned `result`, the onSuccess hook has
\* thrown and the catch block has run
RejectedInHook(result, err) ==
  [tx EXCEPT !.pc = "done", !.remote = "returned", !.outcome = "rejected",
             !.result = result, !.err = err, !.reconciled = TRUE,
             !.rolledBack = @ + 1]

\* --------------------------------------------------- ScheduleStore: proposals
\* the arguments the model passes to schedule.edit(): the shared fields
ScheduleSharedProposals(e) ==
  {[name |-> e.name, triggers |-> e.triggers, info |-> Undef, flags |-> Undef,
    validity |-> Undef],
   [name |-> "C", triggers |-> e.triggers, info |-> Undef, flags |-> Undef,
    validity |-> Undef],
   [name |-> e.name, triggers |-> <<e.triggers[1]>>, info |-> Undef, flags |-> Undef,
    validity |-> Undef],
   [name |-> e.name, triggers |-> e.triggers, info |-> "i2", flags |-> "0",
    validity |-> Undef]}

\* ... and the proposed action map: the current one, or one node removed, added
\* or given another blob
ActionProposals(cur) ==
  {cur}
  \cup {DeleteKey(cur, n) : n \in DOMAIN cur}
  \cup {SetKey(cur, n, B1) : n \in Nodes \ DOMAIN cur}
  \cup {SetKey(cur, n, B2) : n \in DOMAIN cur}

ScheduleEditArgs(e) ==
  {[name |-> sh.name, triggers |-> sh.triggers, action |-> a, info |-> sh.info,
    flags |-> sh.flags, validity |-> sh.validity] :
     sh \in ScheduleSharedProposals(e), a \in ActionProposals(e.action)}

\* the data the model passes to createSchedule()
ScheduleCreateData ==
  {[id |-> "s3", name |-> "C", nodes |-> SeqOfSet(DOMAIN a), action |-> a,
    triggers |-> <<T1>>, validity |-> Undef, flags |-> f, info |-> Undef,
    enabled |-> Undef] :
     a \in {1 :> B1, [n \in Nodes |-> IF n = 1 THEN B3 ELSE B2], EmptyMap},
     f \in {Undef, "0"}}
  \cup {[id |-> "s3", name |-> "C", nodes |-> <<1>>, action |-> 1 :> B1,
          triggers |-> <<T1, TBad>>, validity |-> Undef, flags |-> Undef,
          info |-> Undef, enabled |-> Undef]}

\* ------------------------------------------------ ScheduleStore: interceptors
\* updateScheduleInterceptor.action: the devicesCount it computes from
\* args[0].actions || {}
HookDevicesCount(args) ==
  IF "actions" \in DOMAIN args THEN CountDevices(args.actions) ELSE 0

\* an action hook that stores the schedule with the name it had
ScheduleHookDataKeepName(context, args) ==
  [id |-> context.id,
   name |-> context.name,
   nodes |-> context.nodes,
   enabled |-> context.enabled,
   triggers |-> args.triggers,
   action |-> args.action,
   devicesCount |-> HookDevicesCount(args),
   info |-> IF args.info = Undef THEN context.info ELSE args.info,
   flags |-> IF args.flags = Undef THEN context.flags ELSE args.flags,
   validity |-> IF args.validity = Undef THEN context.validity ELSE args.validity,
   outOfSyncMeta |-> context.outOfSyncMeta]

\* {...context, ...args[0], devicesCount}: a key of args that is undefined is
\* taken as not passed
ScheduleHookData(context, args) ==
  [id |-> context.id,
   name |-> IF args.name = Undef THEN context.name ELSE args.name,
   nodes |-> context.nodes,
   enabled |-> context.enabled,
   triggers |-> args.triggers,
   action |-> args.action,
   devicesCount |-> HookDevicesCount(args),
   info |-> IF args.info = Undef THEN context.info ELSE args.info,
   flags |-> IF args.flags = Undef THEN context.flags ELSE args.flags,
   validity |-> IF args.validity = Undef THEN context.validity ELSE args.validity,
   outOfSyncMeta |-> context.outOfSyncMeta]

\* schedule.edit(args) up to the remote call: the action hook of
\* updateScheduleInterceptor puts the updated schedule into the store (a throw
\* of the constructor only rejects the promise of the async hook, which nobody
\* awaits, and the context stays the store's entry), then #edit / #operations
\* classify the nodes and write the classes on the context
ScheduleEditStart(id, args) ==
  /\ CanStart
  /\ id \in DOMAIN schedulesByID
  /\ LET context == schedulesByID[id]
         data == ScheduleHookData(context, args)
         hookOk == validateSchedule(data.name, data.triggers, data.action)
         o == ScheduleOperations(context, EDIT, ScheduleEditParam(context, args))
         written == [context EXCEPT !.callbackUpdateOperation =
                       WriteOperations(@, o.cls, {NO_CHANGE})]
     IN /\ schedulesByID' =
             SetKey(schedulesByID, id, IF hookOk THEN Schedule(data) ELSE written)
        /\ tx' = Awaiting("schedule", EDIT, id, args, hookOk, written, context, o,
                          DOMAIN o.batch # {}, nodeSchedules, schedulesByID)
  /\ ops' = ops + 1
  /\ UNCHANGED <<entityVars, nodeSchedules, nodeScenes, scenesByID>>

\* schedule.remove() up to the remote call (no action hook)
ScheduleRemoveStart(id) ==
  /\ CanStart
  /\ id \in DOMAIN schedulesByID
  /\ LET context == schedulesByID[id]
         o == ScheduleOperations(context, REMOVE, ScheduleNoParam(context))
     IN tx' = Awaiting("schedule", REMOVE, id, EmptyMap, TRUE, context, context, o,
                       DOMAIN o.batch # {}, nodeSchedules, schedulesByID)
  /\ ops' = ops + 1
  /\ UNCHANGED <<entityVars, nodeSchedules, nodeScenes, schedulesByID, scenesByID>>

\* schedule.enable() / schedule.disable() up to the remote call: the action
\* hook sets enabled on the store's entry, which is the context
ScheduleEnableStart(id, type) ==
  /\ CanStart
  /\ id \in DOMAIN schedulesByID
  /\ LET prevContext == schedulesByID[id]
         context == [prevContext EXCEPT !.enabled =
                       IF type = ENABLE THEN "true" ELSE "false"]
         o == ScheduleOperations(context, type, ScheduleNoParam(context))
     IN /\ schedulesByID' = SetKey(schedulesByID, id, context)
        /\ tx' = Awaiting("schedule", type, id, EmptyMap, TRUE, context, prevContext,
                          o, DOMAIN o.batch # {}, nodeSchedules, schedulesByID)
  /\ ops' = ops + 1
  /\ UNCHANGED <<entityVars, nodeSchedules, nodeScenes, scenesByID>>

\* the scheduleDataObj of createSchedule
ScheduleDataObj(scheduleData) ==
  [id |-> scheduleData.id,
   name |-> OrElse(scheduleData.name, "New Schedule"),
   nodes |-> scheduleData.nodes,
   action |-> scheduleData.action,
   devicesCount |-> CountDevices(scheduleData.action),
   triggers |-> scheduleData.triggers,
   validity |-> OrElse(scheduleData.validity, Null),
   flags |-> OrElse(scheduleData.flags, Null),
   info |-> OrElse(scheduleData.info, Null),
   enabled |-> OrElse(scheduleData.enabled, "false"),
   outOfSyncMeta |-> EmptyMap]

\* createSchedule(scheduleData) up to the remote call of add(): the constructor
\* validates (a throw rejects createSchedule, nothing is stored), addSchedule
\* stores the schedule, add() builds one ADD payload per node
ScheduleCreateStart(scheduleData) ==
  /\ CanStart
  /\ LET obj == ScheduleDataObj(scheduleData)
     IN IF validateSchedule(obj.name, obj.triggers, obj.action)
        THEN LET context == Schedule(obj)
                 o == ScheduleOperations(context, ADD, ScheduleNoParam(context))
             IN /\ schedulesByID' = SetKey(schedulesByID, obj.id, context)
                /\ tx' = Awaiting("schedule", ADD, obj.id, scheduleData, TRUE, context,
                                  context, o, DOMAIN o.batch # {}, nodeSchedules,
                                  schedulesByID)
        ELSE /\ schedulesByID' = schedulesByID
             /\ tx' = [NoTx EXCEPT !.pc = "done", !.kind = "schedule", !.op = ADD,
                                   !.id = obj.id, !.args = scheduleData,
                                   !.hookOk = FALSE, !.outcome = "rejected",
                                   !.err = "validation",
                                   !.regBefore = nodeSchedules,
                                   !.storeBefore = schedulesByID]
  /\ ops' = ops + 1
  /\ UNCHANGED <<entityVars, nodeSchedules, nodeScenes, scenesByID>>

\* result.forEach of an onSuccess hook: updateNodeSchedule for the nodes of
\* `order` in turn; a throw ends the loop and leaves the earlier nodes updated
\* (the hooks bind its result with \E, as a value computed once)
RECURSIVE ReplaySchedules(_, _, _)
ReplaySchedules(reg, order, params) ==
  IF order = <<>> THEN [threw |-> FALSE, reg |-> reg]
  ELSE LET n == Head(order)
           r == updateNodeSchedule(reg[n], params[n])
       IN IF r.threw THEN [threw |-> TRUE, reg |-> reg]
          ELSE ReplaySchedules([reg EXCEPT ![n] = r.list], Tail(order), params)

\* the param updateScheduleInterceptor.onSuccess passes for node_id
ScheduleEditReplayParam(context, args, node_id) ==
  [nodeId |-> node_id,
   action |-> Lookup(args.action, node_id),
   name |-> args.name,
   info |-> args.info,
   id |-> context.id,
   operation |-> IF node_id \in DOMAIN context.callbackUpdateOperation
                 THEN context.callbackUpdateOperation[node_id] ELSE Undef,
   triggers |-> args.triggers,
   flags |-> args.flags,
   validity |-> args.validity]

\* the param addScheduleInterceptor.onSuccess passes for node_id
ScheduleAddReplayParam(context, node_id) ==
  [nodeId |-> node_id,
   action |-> Lookup(context.action, node_id),
   name |-> context.name,
   info |-> context.info,
   id |-> context.id,
   operation |-> ADD,
   triggers |-> context.triggers,
   flags |-> context.flags,
   validity |-> context.validity]

\* the param the delete / enable / disable interceptors pass for node_id
ScheduleIdReplayParam(context, type, node_id) ==
  [nodeId |-> node_id, id |-> context.id, operation |-> type]

ScheduleAwaiting(type) ==
  tx.pc = "awaiting" /\ tx.kind = "schedule" /\ tx.op = type

\* #operations without the promise it resolves itself when the batch is empty
ScheduleResultsOfCallOnly == IF tx.called THEN Results(tx.batch) ELSE {}

\* the result the wrapped operation resolves with: the remote call's per-node
\* list, or the synthesised one when no call was issued
ScheduleResults ==
  IF tx.called THEN Results(tx.batch) ELSE {SynthesizedResponse(tx.nodes)}

\* updateScheduleInterceptor.onSuccess; when updateNodeSchedule throws, the
\* catch of createInterceptor runs the rollback hook, which itself throws
\* (this._scenesByID does not exist on the ScheduleStore)
ScheduleEditReturn(result) ==
  /\ ScheduleAwaiting(EDIT)
  /\ result \in ScheduleResults
  /\ \E nodeIds \in {Succeeded(result)} :
       \E r \in {ReplaySchedules(nodeSchedules, SeqOfSet(nodeIds),
                   [n \in nodeIds |-> ScheduleEditReplayParam(tx.context, tx.args, n)])} :
        /\ nodeSchedules' = r.reg
        /\ IF r.threw
           THEN /\ schedulesByID' = schedulesByID
                /\ tx' = RejectedInHook(result, "TypeError")
           ELSE /\ schedulesByID' = syncSchedulesFromNodes(r.reg, nodeIds)
                /\ tx' = [Resolved(result) EXCEPT
                            !.context.callbackUpdateOperation =
                               IF tx.hookOk THEN @ ELSE EmptyMap]
  /\ UNCHANGED <<entityVars, nodeScenes, scenesByID, ops>>

\* the remote call of schedule.edit() throws: updateScheduleInterceptor.rollback
\* assigns into this._scenesByID, which is undefined on the ScheduleStore, so
\* the rollback throws a TypeError and changes nothing
ScheduleEditThrow ==
  /\ ScheduleAwaiting(EDIT)
  /\ tx.called
  /\ tx' = Rejected("TypeError")
  /\ UNCHANGED <<entityVars, nodeSchedules, nodeScenes, schedulesByID, scenesByID, ops>>

\* addScheduleInterceptor.onSuccess (ADD on a node never throws)
ScheduleAddReturn(result) ==
  /\ ScheduleAwaiting(ADD)
  /\ result \in ScheduleResults
  /\ \E r \in {ReplaySchedules(nodeSchedules, SeqOfSet(Succeeded(result)),
                [n \in Succeeded(result) |-> ScheduleAddReplayParam(tx.context, n)])} :
        /\ nodeSchedules' = r.reg
        /\ schedulesByID' = syncSchedulesFromNodes(r.reg, DOMAIN result)
  /\ tx' = Resolved(result)
  /\ UNCHANGED <<entityVars, nodeScenes, scenesByID, ops>>

\* a rollback of add that leaves the schedule in the store
ScheduleAddThrowKeepsEntry ==
  /\ ScheduleAwaiting(ADD)
  /\ tx.called
  /\ schedulesByID' = schedulesByID
  /\ tx' = Rejected("remote")
  /\ UNCHANGED <<entityVars, nodeSchedules, nodeScenes, scenesByID, ops>>

\* addScheduleInterceptor.rollback
ScheduleAddThrow ==
  /\ ScheduleAwaiting(ADD)
  /\ tx.called
  /\ schedulesByID' = DeleteKey(schedulesByID, tx.context.id)
  /\ tx' = Rejected("remote")
  /\ UNCHANGED <<entityVars, nodeSchedules, nodeScenes, scenesByID, ops>>

RECURSIVE DeleteKeys(_, _)
DeleteKeys(f, ks) ==
  IF ks = {} THEN f
  ELSE LET k == CHOOSE x \in ks : TRUE IN DeleteKeys(DeleteKey(f, k), ks \ {k})

\* deleteScheduleInterceptor.onSuccess (REMOVE on a node never throws)
ScheduleRemoveReturn(result) ==
  /\ ScheduleAwaiting(REMOVE)
  /\ result \in ScheduleResults
  /\ LET nodeIds == Succeeded(result)
         params == [n \in nodeIds |-> ScheduleIdReplayParam(tx.context, REMOVE, n)]
     IN \E r \in {ReplaySchedules(nodeSchedules, SeqOfSet(nodeIds), params)} :
        IF nodeIds # {} /\ tx.context.id \notin DOMAIN schedulesByID
        THEN \* delete this._schedulesByID[context.id].action[node_id] throws
             \* for the first node that succeeded: rollback, then rethrow
             /\ nodeSchedules' =
                  ReplaySchedules(nodeSchedules, <<Head(SeqOfSet(nodeIds))>>, params).reg
             /\ schedulesByID' = SetKey(schedulesByID, tx.prevContext.id,
                                        shallowClone(tx.prevContext, tx.context))
             /\ tx' = RejectedInHook(result, "TypeError")
        ELSE /\ nodeSchedules' = r.reg
             /\ schedulesByID' =
                  IF \A n \in DOMAIN result : result[n] = SUCCESS
                  THEN DeleteKey(schedulesByID, tx.context.id)
                  ELSE syncSchedulesFromNodes(r.reg, nodeIds)
             /\ tx' = [Resolved(result) EXCEPT
                         !.context.action = DeleteKeys(@, nodeIds)]
  /\ UNCHANGED <<entityVars, nodeScenes, scenesByID, ops>>

\* the rollback of the delete, enable and disable interceptors:
\* this._schedulesByID[prevContext.id] = prevContext
ScheduleRestoreThrow(type) ==
  /\ type \in {REMOVE, ENABLE, DISABLE}
  /\ ScheduleAwaiting(type)
  /\ tx.called
  /\ schedulesByID' = SetKey(schedulesByID, tx.prevContext.id,
                             shallowClone(tx.prevContext, tx.context))
  /\ tx' = Rejected("remote")
  /\ UNCHANGED <<entityVars, nodeSchedules, nodeScenes, scenesByID, ops>>

\* enableScheduleInterceptor.onSuccess / disableScheduleInterceptor.onSuccess;
\* when updateNodeSchedule throws, the rollback hook restores the snapshot
ScheduleEnableReturn(type, result) ==
  /\ type \in {ENABLE, DISABLE}
  /\ ScheduleAwaiting(type)
  /\ result \in ScheduleResults
  /\ \E r \in {ReplaySchedules(nodeSchedules, SeqOfSet(Succeeded(result)),
                [n \in Succeeded(result) |-> ScheduleIdReplayParam(tx.context, type, n)])} :
        /\ nodeSchedules' = r.reg
        /\ IF r.threw
           THEN /\ schedulesByID' = SetKey(schedulesByID, tx.prevContext.id,
                                           shallowClone(tx.prevContext, tx.context))
                /\ tx' = RejectedInHook(result, "TypeError")
           ELSE /\ schedulesByID' = syncSchedulesFromNodes(r.reg, DOMAIN result)
                /\ tx' = Resolved(result)
  /\ UNCHANGED <<entityVars, nodeScenes, scenesByID, ops>>

ScheduleNext ==
  \/ \E id \in DOMAIN schedulesByID :
       \E args \in ScheduleEditArgs(schedulesByID[id]) : ScheduleEditStart(id, args)
  \/ \E id \in DOMAIN schedulesByID : ScheduleRemoveStart(id)
  \/ \E id \in DOMAIN schedulesByID, type \in {ENABLE, DISABLE} :
       ScheduleEnableStart(id, type)
  \/ \E scheduleData \in ScheduleCreateData : ScheduleCreateStart(scheduleData)
  \/ \E result \in ScheduleResults : ScheduleEditReturn(result)
  \/ ScheduleEditThrow
  \/ \E result \in ScheduleResults : ScheduleAddReturn(result)
  \/ ScheduleAddThrow
  \/ \E result \in ScheduleResults : ScheduleRemoveReturn(result)
  \/ \E type \in {REMOVE, ENABLE, DISABLE} : ScheduleRestoreThrow(type)
  \/ \E type \in {ENABLE, DISABLE}, result \in ScheduleResults :
       ScheduleEnableReturn(type, result)

\* ------------------------------------------------------ SceneStore: proposals
\* the arguments the model passes to scene.edit()
SceneEditArgs(e) ==
  {[name |-> nm, actions |-> a, info |-> i] :
     nm \in {e.name, "C"}, a \in ActionProposals(e.actions), i \in {Undef, "i2"}}

\* the data the model passes to createScene()
SceneCreateData ==
  {[id |-> "c3", name |-> "C", info |-> i, nodes |-> SeqOfSet(DOMAIN a), actions |-> a] :
     a \in {1 :> B1, [n \in Nodes |-> B2], EmptyMap}, i \in {Undef, "i1"}}

\* --------------------------------------------------- SceneStore: interceptors
\* {...context, ...args[0], devicesCount} of updateSceneInterceptor.action
SceneHookData(context, args) ==
  [id |-> context.id,
   name |-> args.name,
   info |-> IF args.info = Undef THEN context.info ELSE args.info,
   nodes |-> context.nodes,
   actions |-> args.actions,
   devicesCount |-> CountDevices(args.actions)]

\* scene.edit(args) up to the remote call: the action hook stores the updated
\* scene, then #edit / #operations write every node's class on the context
SceneEditStart(id, args) ==
  /\ CanStart
  /\ id \in DOMAIN scenesByID
  /\ LET context == scenesByID[id]
         data == SceneHookData(context, args)
         hookOk == validateScene(data.id, data.name)
         o == SceneOperations(context, EDIT, args.name, args.actions,
                              EditNodes(args.actions, context.actions), args.info)
         written == [context EXCEPT !.callbackUpdateOperation =
                       WriteOperations(@, o.cls, {})]
     IN /\ scenesByID' = SetKey(scenesByID, id, IF hookOk THEN Scene(data) ELSE written)
        /\ tx' = Awaiting("scene", EDIT, id, args, hookOk, written, context, o, TRUE,
                          nodeScenes, scenesByID)
  /\ ops' = ops + 1
  /\ UNCHANGED <<entityVars, nodeSchedules, nodeScenes, schedulesByID>>

\* scene.remove() up to the remote call (no action hook)
SceneRemoveStart(id) ==
  /\ CanStart
  /\ id \in DOMAIN scenesByID
  /\ LET context == scenesByID[id]
         o == SceneOperations(context, REMOVE, Undef, context.actions, context.nodes,
                              Undef)
     IN tx' = Awaiting("scene", REMOVE, id, EmptyMap, TRUE, context, context, o, TRUE,
                       nodeScenes, scenesByID)
  /\ ops' = ops + 1
  /\ UNCHANGED <<entityVars, nodeSchedules, nodeScenes, schedulesByID, scenesByID>>

\* the sceneDataObj of createScene
SceneDataObj(sceneData) ==
  [id |-> sceneData.id,
   name |-> OrElse(sceneData.name, "New Scene"),
   info |-> OrElse(sceneData.info, ""),
   nodes |-> sceneData.nodes,
   actions |-> sceneData.actions,
   devicesCount |-> CountDevices(sceneData.actions)]

\* createScene(sceneData) up to the remote call of add()
SceneCreateStart(sceneData) ==
  /\ CanStart
  /\ LET context == Scene(SceneDataObj(sceneData))
         o == SceneOperations(context, ADD, Undef, context.actions, context.nodes, Undef)
     IN /\ scenesByID' = SetKey(scenesByID, context.id, context)
        /\ tx' = Awaiting("scene", ADD, context.id, sceneData, TRUE, context, context, o,
                          TRUE, nodeScenes, scenesByID)
  /\ ops' = ops + 1
  /\ UNCHANGED <<entityVars, nodeSchedules, nodeScenes, schedulesByID>>

\* result.forEach of an onSuccess hook of the SceneStore
RECURSIVE ReplayScenes(_, _, _)
ReplayScenes(reg, order, params) ==
  IF order = <<>> THEN reg
  ELSE LET n == Head(order)
       IN ReplayScenes([reg EXCEPT ![n] = updateNodeScene(reg[n], params[n])],
                       Tail(order), params)

\* the param updateSceneInterceptor.onSuccess passes for node_id
SceneEditReplayParam(context, args, node_id) ==
  [nodeId |-> node_id,
   action |-> Lookup(args.actions, node_id),
   name |-> args.name,
   info |-> args.info,
   id |-> context.id,
   operation |-> IF node_id \in DOMAIN context.callbackUpdateOperation
                 THEN context.callbackUpdateOperation[node_id] ELSE Undef]

\* the param addSceneInterceptor.onSuccess passes for node_id
SceneAddReplayParam(context, node_id) ==
  [nodeId |-> node_id,
   action |-> Lookup(context.actions, node_id),
   name |-> context.name,
   info |-> context.info,
   id |-> context.id,
   operation |-> ADD]

\* the param deleteSceneInterceptor.onSuccess passes for node_id
SceneRemoveReplayParam(context, node_id) ==
  [nodeId |-> node_id, id |-> context.id, operation |-> REMOVE]

SceneAwaiting(type) == tx.pc = "awaiting" /\ tx.kind = "scene" /\ tx.op = type

\* updateSceneInterceptor.onSuccess
SceneEditReturn(result) ==
  /\ SceneAwaiting(EDIT)
  /\ result \in Results(tx.batch)
  /\ \E reg \in {ReplayScenes(nodeScenes, SeqOfSet(Succeeded(result)),
                  [n \in Succeeded(result) |->
                     SceneEditReplayParam(tx.context, tx.args, n)])} :
        /\ nodeScenes' = reg
        /\ scenesByID' = syncScenesFromNodes(reg)
  /\ tx' = [Resolved(result) EXCEPT
              !.context.callbackUpdateOperation = IF tx.hookOk THEN @ ELSE EmptyMap]
  /\ UNCHANGED <<entityVars, nodeSchedules, schedulesByID, ops>>

\* addSceneInterceptor.onSuccess
SceneAddReturn(result) ==
  /\ SceneAwaiting(ADD)
  /\ result \in Results(tx.batch)
  /\ \E reg \in {ReplayScenes(nodeScenes, SeqOfSet(Succeeded(result)),
                  [n \in Succeeded(result) |-> SceneAddReplayParam(tx.context, n)])} :
        /\ nodeScenes' = reg
        /\ scenesByID' = syncScenesFromNodes(reg)
  /\ tx' = Resolved(result)
  /\ UNCHANGED <<entityVars, nodeSchedules, schedulesByID, ops>>

\* addSceneInterceptor.rollback
SceneAddThrow ==
  /\ SceneAwaiting(ADD)
  /\ scenesByID' = DeleteKey(scenesByID, tx.context.id)
  /\ tx' = Rejected("remote")
  /\ UNCHANGED <<entityVars, nodeSchedules, nodeScenes, schedulesByID, ops>>

\* deleteSceneInterceptor.onSuccess
SceneRemoveReturn(result) ==
  /\ SceneAwaiting(REMOVE)
  /\ result \in Results(tx.batch)
  /\ LET nodeIds == Succeeded(result)
         params == [n \in nodeIds |-> SceneRemoveReplayParam(tx.context, n)]
     IN \E reg \in {ReplayScenes(nodeScenes, SeqOfSet(nodeIds), params)} :
        IF nodeIds # {} /\ tx.context.id \notin DOMAIN scenesByID
        THEN \* delete this._scenesByID[context.id].actions[node_id] throws
             \* for the first node that succeeded: rollback, then rethrow
             /\ nodeScenes' = ReplayScenes(nodeScenes, <<Head(SeqOfSet(nodeIds))>>, params)
             /\ scenesByID' = SetKey(scenesByID, tx.prevContext.id,
                                     shallowClone(tx.prevContext, tx.context))
             /\ tx' = RejectedInHook(result, "TypeError")
        ELSE /\ nodeScenes' = reg
             /\ scenesByID' =
                  IF \A n \in DOMAIN result : result[n] = SUCCESS
                  THEN DeleteKey(scenesByID, tx.context.id)
                  ELSE syncScenesFromNodes(reg)
             /\ tx' = [Resolved(result) EXCEPT
                         !.context.actions = DeleteKeys(@, nodeIds)]
  /\ UNCHANGED <<entityVars, nodeSchedules, schedulesByID, ops>>

\* the rollback of the update and delete interceptors of the SceneStore:
\* this._scenesByID[prevContext.id] = prevContext
SceneRestoreThrow(type) ==
  /\ type \in {EDIT, REMOVE}
  /\ SceneAwaiting(type)
  /\ scenesByID' = SetKey(scenesByID, tx.prevContext.id,
                          shallowClone(tx.prevContext, tx.context))
  /\ tx' = Rejected("remote")
  /\ UNCHANGED <<entityVars, nodeSchedules, nodeScenes, schedulesByID, ops>>

\* scene.activate() up to the remote call: no interceptor is attached to it,
\* #operations sends one ACTIVATE payload per node of the scene
SceneActivateStart(id) ==
  /\ CanStart
  /\ id \in DOMAIN scenesByID
  /\ LET context == scenesByID[id]
         o == SceneOperations(context, ACTIVATE, Undef, context.actions, context.nodes,
                              Undef)
     IN tx' = Awaiting("scene", ACTIVATE, id, EmptyMap, TRUE, context, context, o, TRUE,
                       nodeScenes, scenesByID)
  /\ ops' = ops + 1
  /\ UNCHANGED <<entityVars, nodeSchedules, nodeScenes, schedulesByID, scenesByID>>

\* the remote call of scene.activate() returns: the result goes to the caller
SceneActivateReturn(result) ==
  /\ SceneAwaiting(ACTIVATE)
  /\ result \in Results(tx.batch)
  /\ tx' = [Resolved(result) EXCEPT !.reconciled = FALSE]
  /\ UNCHANGED <<entityVars, nodeSchedules, nodeScenes, schedulesByID, scenesByID, ops>>

\* the remote call of scene.activate() throws: the error goes to the caller
SceneActivateThrow ==
  /\ SceneAwaiting(ACTIVATE)
  /\ tx' = [Rejected("remote") EXCEPT !.rolledBack = 0]
  /\ UNCHANGED <<entityVars, nodeSchedules, nodeScenes, schedulesByID, scenesByID, ops>>

SceneNext ==
  \/ \E id \in DOMAIN scenesByID :
       \E args \in SceneEditArgs(scenesByID[id]) : SceneEditStart(id, args)
  \/ \E id \in DOMAIN scenesByID : SceneRemoveStart(id)
  \/ \E sceneData \in SceneCreateData : SceneCreateStart(sceneData)
  \/ \E result \in Results(tx.batch) : SceneEditReturn(result)
  \/ \E result \in Results(tx.batch) : SceneAddReturn(result)
  \/ SceneAddThrow
  \/ \E result \in Results(tx.batch) : SceneRemoveReturn(result)
  \/ \E type \in {EDIT, REMOVE} : SceneRestoreThrow(type)
  \/ \E id \in DOMAIN scenesByID : SceneActivateStart(id)
  \/ \E result \in Results(tx.batch) : SceneActivateReturn(result)
  \/ SceneActivateThrow

Next == ScheduleNext \/ SceneNext

Spec == Init /\ [][Next]_vars

\* ------------------------------------------------- the remote call settles
\* A specification for progress: the awaited remote call (or the promise
\* #operations builds when there is nothing to send) eventually settles, and
\* the rest of createInterceptor runs to its return or throw in the same turn.
RemoteSettles ==
  \/ \E result \in ScheduleResults : ScheduleEditReturn(result)
  \/ ScheduleEditThrow
  \/ \E result \in ScheduleResults : ScheduleAddReturn(result)
  \/ ScheduleAddThrow
  \/ \E result \in ScheduleResults : ScheduleRemoveReturn(result)
  \/ \E type \in {REMOVE, ENABLE, DISABLE} : ScheduleRestoreThrow(type)
  \/ \E type \in {ENABLE, DISABLE}, result \in ScheduleResults :
       ScheduleEnableReturn(type, result)
  \/ \E result \in Results(tx.batch) : SceneEditReturn(result)
  \/ \E result \in Results(tx.batch) : SceneAddReturn(result)
  \/ SceneAddThrow
  \/ \E result \in Results(tx.batch) : SceneRemoveReturn(result)
  \/ \E type \in {EDIT, REMOVE} : SceneRestoreThrow(type)
  \/ \E result \in Results(tx.batch) : SceneActivateReturn(result)
  \/ SceneActivateThrow

LiveSpec == Spec /\ WF_vars(RemoteSettles)

\* ------------------------------------------- the intent resolvers on their own
\* A second specification: the two #determineEditOperation functions applied
\* to inputs drawn from bounded sets. tx holds the call: the entity it is
\* called on, its arguments and, once it has returned, its result.
T3 == [m |-> "600", d |-> "1", rsec |-> Undef, ord |-> 0]

InitSchedules == syncSchedulesFromNodes(InitNodeSchedules, Nodes)
InitScenes == syncScenesFromNodes(InitNodeScenes)

\* proposed trigger lists: the current one, none, the last one removed, one
\* added, the first one changed, the first one with its keys in another order
ResolverTriggerProposals(cur) ==
  {cur, <<>>, SubSeq(cur, 1, Len(cur) - 1), Append(cur, T3),
   [cur EXCEPT ![1] = T3], [cur EXCEPT ![1] = [@ EXCEPT !.ord = 1]]}

ResolverCall(kind, self, nodeId, newaction, scheduleName, triggers, info, flags, validity) ==
  [pc |-> "called", kind |-> kind, self |-> self, nodeId |-> nodeId,
   newaction |-> newaction, scheduleName |-> scheduleName, triggers |-> triggers,
   info |-> info, flags |-> flags, validity |-> validity, result |-> Undef]

\* the calls on the schedule `self`
ScheduleResolverCallsOn(self) ==
  {ResolverCall("schedule", self, n, a, nm, t, i, f, v) :
     n \in Nodes, a \in ActionProposals(self.action), nm \in {self.name, "C"},
     t \in ResolverTriggerProposals(self.triggers), i \in {self.info, "i2"},
     f \in {self.flags, "0"}, v \in {self.validity, "v2"}}

ScheduleResolverCalls ==
  UNION {ScheduleResolverCallsOn(InitSchedules[id]) : id \in DOMAIN InitSchedules}

\* the calls on the scene `self`
SceneResolverCallsOn(self) ==
  {ResolverCall("scene", self, n, a, Undef, <<>>, Undef, Undef, Undef) :
     n \in Nodes, a \in ActionProposals(self.actions)}

SceneResolverCalls ==
  UNION {SceneResolverCallsOn(InitScenes[id]) : id \in DOMAIN InitScenes}

ResolverInit ==
  /\ nodeSchedules = InitNodeSchedules
  /\ nodeScenes = InitNodeScenes
  /\ schedulesByID = InitSchedules
  /\ scenesByID = InitScenes
  /\ tx \in ScheduleResolverCalls \cup SceneResolverCalls
  /\ ops = 0
  /\ groupsByID = EmptyMap
  /\ automation = EmptyMap
  /\ calls = <<>>
  /\ nodesByID = InitNodes

\* Schedule.#determineEditOperation returns: it assigns to nothing
ScheduleResolve ==
  /\ tx.pc = "called"
  /\ tx.kind = "schedule"
  /\ tx' = [tx EXCEPT !.pc = "returned",
                      !.result = ScheduleDetermineEditOperation(tx.self, tx.nodeId,
                                   tx.newaction, tx.scheduleName, tx.triggers,
                                   tx.info, tx.flags, tx.validity)]
  /\ UNCHANGED <<entityVars, nodeSchedules, nodeScenes, schedulesByID, scenesByID, ops>>

\* Scene.#determineEditOperation returns: it assigns to nothing
SceneResolve ==
  /\ tx.pc = "called"
  /\ tx.kind = "scene"
  /\ tx' = [tx EXCEPT !.pc = "returned",
                      !.result = SceneDetermineEditOperation(tx.self, tx.nodeId,
                                                             tx.newaction)]
  /\ UNCHANGED <<entityVars, nodeSchedules, nodeScenes, schedulesByID, scenesByID, ops>>

ResolverNext == ScheduleResolve \/ SceneResolve

ResolverSpec == ResolverInit /\ [][ResolverNext]_vars

\* ------------------------------------------------ the Fragment Merge on its own
\* A third specification: the two store syncs applied, MaxOps times in a row,
\* to a Node Registry whose fragment lists are drawn from bounded sets. tx
\* holds the kind of store that is synchronised and prev, the store as it was
\* before the last sync.
\* fragments of schedule s1 as a node can report them: as S1Fragment, or with
\* another name, fewer triggers, the keys of a trigger in another order, flags
\* 0, or another action without info
S1Variants ==
  {S1Fragment,
   [S1Fragment EXCEPT !.name = "A2"],
   [S1Fragment EXCEPT !.triggers = <<T1>>],
   [S1Fragment EXCEPT !.triggers = <<T1r, T2>>],
   [S1Fragment EXCEPT !.flags = "0"],
   [S1Fragment EXCEPT !.action = B3, !.info = Undef, !.enabled = "false"]}

\* the cached schedules array of one node: every id at most once
ScheduleLists ==
  {<<>>, <<S2Fragment>>}
  \cup {<<f>> : f \in S1Variants}
  \cup {<<f, S2Fragment>> : f \in S1Variants}
  \cup {<<S2Fragment, f>> : f \in S1Variants}

C1Variants ==
  {C1Fragment,
   [C1Fragment EXCEPT !.name = "A2"],
   [C1Fragment EXCEPT !.info = "i2", !.action = B3]}

\* the cached scenes array of one node
SceneLists ==
  {<<>>, <<C2Fragment>>}
  \cup {<<f>> : f \in C1Variants}
  \cup {<<f, C2Fragment>> : f \in C1Variants}

MergeTx(kind) == [pc |-> "loaded", kind |-> kind, prev |-> EmptyMap]

MergeInit ==
  /\ \/ /\ nodeSchedules \in [Nodes -> ScheduleLists]
        /\ nodeScenes = InitNodeScenes
        /\ tx = MergeTx("schedule")
     \/ /\ nodeSchedules = InitNodeSchedules
        /\ nodeScenes \in [Nodes -> SceneLists]
        /\ tx = MergeTx("scene")
  /\ schedulesByID = EmptyMap
  /\ scenesByID = EmptyMap
  /\ ops = 0
  /\ groupsByID = EmptyMap
  /\ automation = EmptyMap
  /\ calls = <<>>
  /\ nodesByID = InitNodes

\* a sync that does not clear the store and merges the fragments into the
\* entities it holds
SyncSchedulesOnto ==
  /\ tx.kind = "schedule"
  /\ ops < MaxOps
  /\ schedulesByID' = MergeSchedules(schedulesByID, FragmentsOf(nodeSchedules, nodeList)).map
  /\ tx' = [tx EXCEPT !.pc = "synced", !.prev = schedulesByID]
  /\ ops' = ops + 1
  /\ UNCHANGED <<entityVars, nodeSchedules, nodeScenes, scenesByID>>

\* scheduleStore.syncSchedulesFromNodes(nodeIds) with the ids of all nodes
SyncSchedules ==
  /\ tx.kind = "schedule"
  /\ ops < MaxOps
  /\ schedulesByID' = syncSchedulesFromNodes(nodeSchedules, Nodes)
  /\ tx' = [tx EXCEPT !.pc = "synced", !.prev = schedulesByID]
  /\ ops' = ops + 1
  /\ UNCHANGED <<entityVars, nodeSchedules, nodeScenes, scenesByID>>

\* sceneStore.syncScenesFromNodes()
SyncScenes ==
  /\ tx.kind = "scene"
  /\ ops < MaxOps
  /\ scenesByID' = syncScenesFromNodes(nodeScenes)
  /\ tx' = [tx EXCEPT !.pc = "synced", !.prev = scenesByID]
  /\ ops' = ops + 1
  /\ UNCHANGED <<entityVars, nodeSchedules, nodeScenes, schedulesByID>>

MergeNext == SyncSchedules \/ SyncScenes

MergeSpec == MergeInit /\ [][MergeNext]_vars

\* ------------------------------------------- overlapping remove() calls
\* the application turns from the transaction tx to the other one: tx, which
\* awaits its remote call, is set aside, or the one set aside is taken up
\* again; the stores are as the transactions left them
Switch ==
  /\ tx.pc = "awaiting" \/ (calls # <<>> /\ calls[1].pc = "awaiting")
  /\ tx' = IF calls = <<>> THEN NoTx ELSE calls[1]
  /\ calls' = <<tx>>
  /\ UNCHANGED <<nodeSchedules, nodeScenes, schedulesByID, scenesByID, ops,
                 groupsByID, automation, nodesByID>>

\* remove() calls on schedules and scenes that may overlap
OverlapNext ==
  \/ \E id \in DOMAIN schedulesByID : ScheduleRemoveStart(id)
  \/ \E result \in ScheduleResults : ScheduleRemoveReturn(result)
  \/ ScheduleRestoreThrow(REMOVE)
  \/ \E id \in DOMAIN scenesByID : SceneRemoveStart(id)
  \/ \E result \in Results(tx.batch) : SceneRemoveReturn(result)
  \/ SceneRestoreThrow(REMOVE)
  \/ Switch

OverlapSpec == Init /\ [][OverlapNext]_vars

\* -------------------------------------------------------------- GroupStore
\* a group as the store holds it; subGroups holds the subgroup objects
Group(id, parentGroupId, nodes, subGroups) ==
  [id |-> id, parentGroupId |-> parentGroupId, nodes |-> nodes, subGroups |-> subGroups]

\* setGroupList(groups): the store after the group list is loaded, the
\* top-level group g1 with node 1 and its subgroup g2
InitGroups ==
  "g1" :> Group("g1", Undef, <<1>>, <<Group("g2", "g1", <<>>, <<>>)>>)

\* the group objects reachable from the store: its entries and their
\* subgroups, each named by the ids that lead to it
GroupPaths(store) ==
  {<<g>> : g \in DOMAIN store} \cup
  UNION {{<<g, store[g].subGroups[i].id>> : i \in 1..Len(store[g].subGroups)} :
           g \in DOMAIN store}

GroupAt(store, path) ==
  IF Len(path) = 1 THEN store[path[1]]
  ELSE store[path[1]].subGroups[FindIndex(store[path[1]].subGroups, path[2])]

\* an assignment to the fields of the group object at path
PutGroup(store, path, group) ==
  IF Len(path) = 1 THEN [store EXCEPT ![path[1]] = group]
  ELSE [store EXCEPT
          ![path[1]].subGroups[FindIndex(store[path[1]].subGroups, path[2])] = group]

\* addNodeInterceptor.action: context.nodes = [...(context?.nodes || []), ...args[0]]
addNodeAction(context, args) == [context EXCEPT !.nodes = @ \o args]

\* removeNodeInterceptor.action: context.nodes without the ids of args[0]
removeNodeAction(context, args) ==
  [context EXCEPT !.nodes = SelectSeq(@, LAMBDA id : id \notin Range(args))]

\* a rollback that leaves the nodes of the group as they are
nodeRollbackKeep(context, prevContext) == context

\* the rollback of addNodeInterceptor and of removeNodeInterceptor:
\* context.nodes = prevContext.nodes
nodeRollback(context, prevContext) == [context EXCEPT !.nodes = prevContext.nodes]

\* deleteGroupInterceptor.action: a group with a parentGroupId is spliced out
\* of the subGroups of its parent, if the store holds the parent and the
\* parent lists it; a group without one is deleted from groupsByID
deleteGroupAction(store, context) ==
  IF context.parentGroupId # Undef
  THEN IF context.parentGroupId \in DOMAIN store
       THEN LET index == FindIndex(store[context.parentGroupId].subGroups, context.id)
            IN  IF index # 0
                THEN [store EXCEPT ![context.parentGroupId].subGroups = RemoveAt(@, index)]
                ELSE store
       ELSE store
  ELSE [k \in DOMAIN store \ {context.id} |-> store[k]]

\* deleteGroupInterceptor.rollback: this.groupsByID[id] = prevContext
deleteGroupRollback(store, prevContext) ==
  [k \in DOMAIN store \cup {prevContext.id} |->
     IF k = prevContext.id THEN prevContext ELSE store[k]]

NodeOps == {"addNodes", "removeNodes"}
DeleteOps == {"delete", "leave"}

\* an invocation of an interceptor: prevContext is shallowClone(context), taken
\* before the action hook ran
Call(store, op, path, args, prevContext) ==
  [pc |-> "awaiting", store |-> store, op |-> op, path |-> path, args |-> args,
   prevContext |-> prevContext, outcome |-> "none"]

InFlight == {k \in 1..Len(calls) : calls[k].pc = "awaiting"}

CallEnds(k, outcome) == [calls EXCEPT ![k].pc = "done", ![k].outcome = outcome]

\* group.addNodes(ids) / group.removeNodes(ids) up to the await of the remote
\* call: snapshot, then the action hook
GroupNodesStart(op, path, args) ==
  /\ ops < MaxOps
  /\ \A k \in InFlight : calls[k].op \in NodeOps
  /\ LET context == GroupAt(groupsByID, path)
     IN  /\ groupsByID' =
               PutGroup(groupsByID, path,
                        IF op = "addNodes" THEN addNodeAction(context, args)
                        ELSE removeNodeAction(context, args))
         /\ calls' = Append(calls, Call("group", op, path, args, context))
  /\ ops' = ops + 1
  /\ UNCHANGED <<nodesByID, nodeSchedules, nodeScenes, schedulesByID, scenesByID, tx, automation>>

\* the remote call of addNodes / removeNodes returns: no onSuccess hook
GroupNodesReturn(k) ==
  /\ k \in InFlight
  /\ calls[k].op \in NodeOps
  /\ calls' = CallEnds(k, "resolved")
  /\ UNCHANGED <<nodesByID, nodeSchedules, nodeScenes, schedulesByID, scenesByID, tx, ops,
                 groupsByID, automation>>

\* the remote call of addNodes / removeNodes throws: rollback, then rethrow
GroupNodesThrow(k) ==
  /\ k \in InFlight
  /\ calls[k].op \in NodeOps
  /\ groupsByID' =
       PutGroup(groupsByID, calls[k].path,
                nodeRollback(GroupAt(groupsByID, calls[k].path), calls[k].prevContext))
  /\ calls' = CallEnds(k, "rejected")
  /\ UNCHANGED <<nodesByID, nodeSchedules, nodeScenes, schedulesByID, scenesByID, tx, ops, automation>>

\* group.delete() / group.leave() up to the await of the remote call, run
\* while no other invocation on a group is in flight
GroupDeleteStart(op, path) ==
  /\ ops < MaxOps
  /\ InFlight = {}
  /\ LET context == GroupAt(groupsByID, path)
     IN  /\ groupsByID' = deleteGroupAction(groupsByID, context)
         /\ calls' = Append(calls, Call("group", op, path, <<>>, context))
  /\ ops' = ops + 1
  /\ UNCHANGED <<nodesByID, nodeSchedules, nodeScenes, schedulesByID, scenesByID, tx, automation>>

\* the remote call of delete / leave returns: no onSuccess hook
GroupDeleteReturn(k) ==
  /\ k \in InFlight
  /\ calls[k].op \in DeleteOps
  /\ calls' = CallEnds(k, "resolved")
  /\ UNCHANGED <<nodesByID, nodeSchedules, nodeScenes, schedulesByID, scenesByID, tx, ops,
                 groupsByID, automation>>

\* the remote call of delete / leave throws: rollback, then rethrow
GroupDeleteThrow(k) ==
  /\ k \in InFlight
  /\ calls[k].op \in DeleteOps
  /\ groupsByID' = deleteGroupRollback(groupsByID, calls[k].prevContext)
  /\ calls' = CallEnds(k, "rejected")
  /\ UNCHANGED <<nodesByID, nodeSchedules, nodeScenes, schedulesByID, scenesByID, tx, ops, automation>>

GroupInit ==
  /\ nodeSchedules = InitNodeSchedules
  /\ nodeScenes = InitNodeScenes
  /\ schedulesByID = InitSchedules
  /\ scenesByID = InitScenes
  /\ tx = NoTx
  /\ ops = 0
  /\ groupsByID = InitGroups
  /\ automation = EmptyMap
  /\ calls = <<>>
  /\ nodesByID = InitNodes

GroupNext ==
  \/ \E op \in NodeOps, path \in GroupPaths(groupsByID), n \in Nodes :
       GroupNodesStart(op, path, <<n>>)
  \/ \E k \in 1..Len(calls) : GroupNodesReturn(k)
  \/ \E k \in 1..Len(calls) : GroupNodesThrow(k)
  \/ \E op \in DeleteOps, path \in GroupPaths(groupsByID) : GroupDeleteStart(op, path)
  \/ \E k \in 1..Len(calls) : GroupDeleteReturn(k)
  \/ \E k \in 1..Len(calls) : GroupDeleteThrow(k)

GroupSpec == GroupInit /\ [][GroupNext]_vars

\* --------------------------------------------------------- AutomationStore
\* Object.assign(target, source) on the own properties of the two objects
ObjectAssign(target, source) ==
  [k \in DOMAIN target \cup DOMAIN source |->
     IF k \in DOMAIN source THEN source[k] ELSE target[k]]

\* object[key], undefined for a property the object does not have
Property(object, key) == IF key \in DOMAIN object THEN object[key] ELSE Undef

\* the automations the store may hold: one of a node event, which has no
\* location, and one of a weather event, which has one
NodeAutomation ==
  [k \in {"automationName", "enabled", "retrigger"} |->
     IF k = "automationName" THEN "a1" ELSE IF k = "enabled" THEN "true" ELSE "false"]
WeatherAutomation == ObjectAssign(NodeAutomation, "location" :> "L1")
InitAutomations == {NodeAutomation, WeatherAutomation}

\* the arguments of automation.update(automationDetails)
UpdateDetails ==
  {"automationName" :> "a2",
   "location" :> "L2",
   ObjectAssign("enabled" :> "false", "location" :> "L2")}

\* the interceptors of one field: updateName, enable, updateLocation and
\* setRetrigger, each with the field its hooks assign and an argument
FieldCalls ==
  {[op |-> "updateName", field |-> "automationName", value |-> "a2"],
   [op |-> "enable", field |-> "enabled", value |-> "false"],
   [op |-> "updateLocation", field |-> "location", value |-> "L2"],
   [op |-> "setRetrigger", field |-> "retrigger", value |-> "true"]}

FieldOf(op) == (CHOOSE c \in FieldCalls : c.op = op).field

\* updateInterceptor.action: Object.assign(context, automationDetails)
updateAction(context, automationDetails) == ObjectAssign(context, automationDetails)

\* a rollback that replaces the automation by the snapshot
updateRollbackReplace(context, prevContext) == prevContext

\* updateInterceptor.rollback: Object.assign(context, prevContext)
updateRollback(context, prevContext) == ObjectAssign(context, prevContext)

\* automation.update(automationDetails) up to the await of the remote call
AutomationUpdateStart(automationDetails) ==
  /\ ops < MaxOps
  /\ automation' = updateAction(automation, automationDetails)
  /\ calls' = Append(calls, Call("automation", "update", <<>>, automationDetails, automation))
  /\ ops' = ops + 1
  /\ UNCHANGED <<nodesByID, nodeSchedules, nodeScenes, schedulesByID, scenesByID, tx, groupsByID>>

\* the remote call of update throws: rollback, then rethrow
AutomationUpdateThrow(k) ==
  /\ k \in InFlight
  /\ calls[k].op = "update"
  /\ automation' = updateRollback(automation, calls[k].prevContext)
  /\ calls' = CallEnds(k, "rejected")
  /\ UNCHANGED <<nodesByID, nodeSchedules, nodeScenes, schedulesByID, scenesByID, tx, ops, groupsByID>>

\* updateName / enable / updateLocation / setRetrigger up to the await of the
\* remote call: context.field = args[0]
AutomationFieldStart(c) ==
  /\ ops < MaxOps
  /\ automation' = ObjectAssign(automation, c.field :> c.value)
  /\ calls' = Append(calls, Call("automation", c.op, <<>>, c.value, automation))
  /\ ops' = ops + 1
  /\ UNCHANGED <<nodesByID, nodeSchedules, nodeScenes, schedulesByID, scenesByID, tx, groupsByID>>

\* the remote call of a field operation throws:
\* context.field = prevContext.field
AutomationFieldThrow(k) ==
  /\ k \in InFlight
  /\ calls[k].op # "update"
  /\ automation' =
       ObjectAssign(automation,
                    FieldOf(calls[k].op) :> Property(calls[k].prevContext, FieldOf(calls[k].op)))
  /\ calls' = CallEnds(k, "rejected")
  /\ UNCHANGED <<nodesByID, nodeSchedules, nodeScenes, schedulesByID, scenesByID, tx, ops, groupsByID>>

\* the remote call of an operation on the automation returns: no onSuccess hook
AutomationReturn(k) ==
  /\ k \in InFlight
  /\ calls' = CallEnds(k, "resolved")
  /\ UNCHANGED <<nodesByID, nodeSchedules, nodeScenes, schedulesByID, scenesByID, tx, ops,
                 groupsByID, automation>>

AutomationInit ==
  /\ nodeSchedules = InitNodeSchedules
  /\ nodeScenes = InitNodeScenes
  /\ schedulesByID = InitSchedules
  /\ scenesByID = InitScenes
  /\ tx = NoTx
  /\ ops = 0
  /\ groupsByID = EmptyMap
  /\ automation \in InitAutomations
  /\ calls = <<>>
  /\ nodesByID = InitNodes

AutomationNext ==
  \/ \E automationDetails \in UpdateDetails : AutomationUpdateStart(automationDetails)
  \/ \E k \in 1..Len(calls) : AutomationUpdateThrow(k)
  \/ \E c \in FieldCalls : AutomationFieldStart(c)
  \/ \E k \in 1..Len(calls) : AutomationFieldThrow(k)
  \/ \E k \in 1..Len(calls) : AutomationReturn(k)

AutomationSpec == AutomationInit /\ [][AutomationNext]_vars

\* ------------------------------------------------- store refresh from the cloud
\* the first page getUserNodes() can return: some of the nodes, each as it
\* was first fetched ("v1") or changed since ("v2")
NodePages == UNION {[S -> {"v1", "v2"}] : S \in SUBSET Nodes}

\* the first page getGroups() can return: g1 with or without its subgroup,
\* a group g3 the store has not seen, both, or no group
GroupPages ==
  {<<>>,
   <<InitGroups["g1"]>>,
   <<Group("g1", Undef, <<1>>, <<>>)>>,
   <<Group("g3", Undef, <<>>, <<>>)>>,
   <<InitGroups["g1"], Group("g3", Undef, <<>>, <<>>)>>}

\* a finished refresh of a store from the response of the cloud
Refresh(store, op, response) ==
  [pc |-> "done", store |-> store, op |-> op, path |-> <<>>, args |-> response,
   prevContext |-> EmptyMap, outcome |-> "resolved"]

\* nodes.map(node => this.addNode(node)): this._nodesByID[node.id] = node
processNodeDetailsRes(store, nodes) ==
  [n \in DOMAIN store \cup DOMAIN nodes |->
     IF n \in DOMAIN nodes THEN nodes[n] ELSE store[n]]

\* groups.map(group => this.addGroup(group)): this.groupsByID[group.id] = group
RECURSIVE processGetGroupsRes(_, _)
processGetGroupsRes(store, groups) ==
  IF groups = <<>> THEN store
  ELSE processGetGroupsRes(deleteGroupRollback(store, Head(groups)), Tail(groups))

\* nodeStore.syncNodeList() once getUserNodes() has returned `response`
syncNodeList(response) ==
  /\ ops < MaxOps
  /\ nodesByID' = processNodeDetailsRes(nodesByID, response)
  /\ calls' = Append(calls, Refresh("node", "syncNodeList", response))
  /\ ops' = ops + 1
  /\ UNCHANGED <<nodeSchedules, nodeScenes, schedulesByID, scenesByID, tx,
                 groupsByID, automation>>

\* groupStore.syncGroupList() once getGroups() has returned `response`:
\* this.groupsByID = {}, then processGetGroupsRes(response)
syncGroupList(response) ==
  /\ ops < MaxOps
  /\ groupsByID' = processGetGroupsRes(EmptyMap, response)
  /\ calls' = Append(calls, Refresh("group", "syncGroupList", response))
  /\ ops' = ops + 1
  /\ UNCHANGED <<nodeSchedules, nodeScenes, schedulesByID, scenesByID, tx,
                 nodesByID, automation>>

RefreshInit ==
  /\ nodeSchedules = InitNodeSchedules
  /\ nodeScenes = InitNodeScenes
  /\ schedulesByID = InitSchedules
  /\ scenesByID = InitScenes
  /\ tx = NoTx
  /\ ops = 0
  /\ groupsByID = InitGroups
  /\ automation = EmptyMap
  /\ calls = <<>>
  /\ nodesByID = InitNodes

RefreshNext ==
  \/ \E response \in NodePages : syncNodeList(response)
  \/ \E response \in GroupPages : syncGroupList(response)

RefreshSpec == RefreshInit /\ [][RefreshNext]_vars

\* ------------------------------------------------------------------ claims
\* The claims below are about the transaction that has just ended (tx.pc =
\* "done"): tx.storeBefore and tx.regBefore are the store and the Node Registry
\* as they were when it started.
Ended == tx.pc = "done"
RemoteThrew == Ended /\ tx.remote = "threw"
RemoteReturned == Ended /\ tx.remote = "returned" /\ tx.called

\* the store and the Node Registry cache of the kind of entity tx is about
StoreOf(kind) == IF kind = "schedule" THEN schedulesByID ELSE scenesByID
RegistryOf(kind) == IF kind = "schedule" THEN nodeSchedules ELSE nodeScenes

SameOn(a, b, fields) == \A f \in fields : a[f] = b[f]

\* C1: Schedule.edit whose remote call throws: once the transaction has ended,
\* the store's entry for the schedule id is deep-equal to the entry that was
\* there before edit was called, in name, triggers, action, nodes,
\* devicesCount, info, flags, validity and enabled.
C1_ScheduleEditRollback ==
  (RemoteThrew /\ tx.kind = "schedule" /\ tx.op = EDIT) =>
    /\ tx.id \in DOMAIN schedulesByID
    /\ SameOn(schedulesByID[tx.id], tx.storeBefore[tx.id],
              {"name", "triggers", "action", "nodes", "devicesCount", "info",
               "flags", "validity", "enabled"})

\* C2: Scene.edit, Scene.remove, Schedule.remove, Schedule.enable and
\* Schedule.disable whose remote call throws: the store's entry for the id is
\* afterwards equal to the entry before the transaction in every field,
\* callbackUpdateOperation included.
C2_RollbackRestoresEntry ==
  (/\ RemoteThrew
   /\ \/ tx.kind = "scene" /\ tx.op \in {EDIT, REMOVE}
      \/ tx.kind = "schedule" /\ tx.op \in {REMOVE, ENABLE, DISABLE}) =>
    /\ tx.id \in DOMAIN StoreOf(tx.kind)
    /\ StoreOf(tx.kind)[tx.id] = tx.storeBefore[tx.id]

\* the fragments of `list` other than those of entity id
Others(list, id) == SelectSeq(list, LAMBDA x : x.id # id)

\* the value an optional argument of edit must have left in the fragment, when
\* the caller passed one
PassedOrAny(arg, value) == arg = Undef \/ value = arg

\* the effect of operation c of the transaction on node n's cached list
\* `after`, which was `before`
ScheduleEffect(c, n, before, after) ==
  IF c = ADD
  THEN \E i \in 1..Len(after) : after[i].id = tx.id /\ RemoveAt(after, i) = before
  ELSE IF c = EDIT
  THEN /\ Len(after) = Len(before)
       /\ \A i \in 1..Len(after) :
            IF before[i].id # tx.id THEN after[i] = before[i]
            ELSE /\ after[i].id = tx.id
                 /\ after[i].name = tx.args.name
                 /\ after[i].action = Lookup(tx.args.action, n)
                 /\ after[i].triggers = tx.args.triggers
                 /\ PassedOrAny(tx.args.info, after[i].info)
                 /\ PassedOrAny(tx.args.flags, after[i].flags)
                 /\ PassedOrAny(tx.args.validity, after[i].validity)
       /\ \E i \in 1..Len(after) : after[i].id = tx.id
  ELSE IF c = REMOVE
  THEN after = Others(before, tx.id)
  ELSE IF c \in {ENABLE, DISABLE}
  THEN /\ Len(after) = Len(before)
       /\ \A i \in 1..Len(after) :
            IF before[i].id # tx.id THEN after[i] = before[i]
            ELSE after[i] = [before[i] EXCEPT !.enabled =
                               IF c = ENABLE THEN "true" ELSE "false"]
       /\ \E i \in 1..Len(after) : after[i].id = tx.id
  ELSE after = before

SceneEffect(c, n, before, after) ==
  IF c = ADD
  THEN \E i \in 1..Len(after) : after[i].id = tx.id /\ RemoveAt(after, i) = before
  ELSE IF c = EDIT
  THEN /\ Len(after) = Len(before)
       /\ \A i \in 1..Len(after) :
            IF before[i].id # tx.id THEN after[i] = before[i]
            ELSE /\ after[i].id = tx.id
                 /\ after[i].name = tx.args.name
                 /\ after[i].action = Lookup(tx.args.actions, n)
                 /\ PassedOrAny(tx.args.info, after[i].info)
       /\ \E i \in 1..Len(after) : after[i].id = tx.id
  ELSE IF c = REMOVE
  THEN after = Others(before, tx.id)
  ELSE after = before

\* C3: reconciliation of a per-node result: the cached fragment list of every
\* node that reports success reflects the effect of the operation the
\* transaction classified that node as (ADD inserts the fragment, EDIT
\* overwrites its fields, REMOVE deletes it, ENABLE / DISABLE sets enabled),
\* and the list of every other node is as it was before the transaction.
C3_ReplayedEffect ==
  (Ended /\ tx.remote = "returned") =>
    \A n \in Nodes :
      IF n \in Succeeded(tx.result)
      THEN IF tx.kind = "schedule"
           THEN ScheduleEffect(tx.cls[n], n, tx.regBefore[n], nodeSchedules[n])
           ELSE SceneEffect(tx.cls[n], n, tx.regBefore[n], nodeScenes[n])
      ELSE RegistryOf(tx.kind)[n] = tx.regBefore[n]

\* C4: after the reconciliation of a Schedule mutation whose remote call
\* returned (add, edit, enable, disable, or a remove in which some node
\* failed) the ScheduleStore holds exactly the Fragment Merge over all nodes of
\* the Node Registry.
C4_StoreIsFullMerge ==
  (/\ RemoteReturned
   /\ tx.kind = "schedule"
   /\ tx.outcome = "resolved"
   /\ tx.op = REMOVE => Succeeded(tx.result) # DOMAIN tx.result) =>
    schedulesByID = syncSchedulesFromNodes(nodeSchedules, Nodes)

\* C5: Schedule.remove and Scene.remove whose remote call returned: when every
\* node reports success the id is absent from the store; otherwise the entity
\* is still in the store, its nodes and its action map being exactly the nodes
\* whose delete did not succeed.
C5_RemoveOutcome ==
  (RemoteReturned /\ tx.op = REMOVE) =>
    LET failed == DOMAIN tx.result \ Succeeded(tx.result)
        store == StoreOf(tx.kind)
    IN IF failed = {}
       THEN tx.id \notin DOMAIN store
       ELSE /\ tx.id \in DOMAIN store
            /\ Range(store[tx.id].nodes) = failed
            /\ DOMAIN (IF tx.kind = "schedule" THEN store[tx.id].action
                       ELSE store[tx.id].actions) = failed

\* two trigger lists are equal when each element of one is deep-equal to some
\* element of the other
TriggerListsEqual(a, b) ==
  /\ \A i \in 1..Len(a) : \E j \in 1..Len(b) : TriggerDeepEqual(a[i], b[j])
  /\ \A j \in 1..Len(b) : \E i \in 1..Len(a) : TriggerDeepEqual(a[i], b[j])

\* the proposed shared fields of a resolver call differ from the schedule's
SharedFieldsDiffer ==
  \/ tx.scheduleName # tx.self.name
  \/ ~TriggerListsEqual(tx.triggers, tx.self.triggers)
  \/ tx.info # tx.self.info
  \/ tx.flags # tx.self.flags
  \/ tx.validity # tx.self.validity

\* C6: Schedule resolver, for a node that is in the current and in the proposed
\* action map with deep-equal action: the class is EDIT if the proposed name,
\* triggers, info, flags or validity differs from the schedule's, and NO_CHANGE
\* otherwise; a trigger list that differs in any way counts as a difference.
C6_SharedFieldsDecide ==
  (/\ tx.pc = "returned"
   /\ tx.kind = "schedule"
   /\ tx.nodeId \in DOMAIN tx.self.action
   /\ tx.nodeId \in DOMAIN tx.newaction
   /\ tx.self.action[tx.nodeId] = tx.newaction[tx.nodeId]) =>
    tx.result = (IF SharedFieldsDiffer THEN EDIT ELSE NO_CHANGE)

\* the current action map of the entity a resolver call is made on
CurrentMap == IF tx.kind = "schedule" THEN tx.self.action ELSE tx.self.actions

SceneEditRunning == tx.kind = "scene" /\ tx.op = EDIT /\ tx.pc \in {"awaiting", "done"}
ScheduleEditRunning ==
  tx.kind = "schedule" /\ tx.op = EDIT /\ tx.pc \in {"awaiting", "done"}

\* C8: Scene edit: every node that is in the current and in the proposed
\* actions map is classified EDIT, whatever the action content, name and info,
\* a payload for it is in the batch, and the remote call is issued.
C8_SceneAlwaysEdit ==
  SceneEditRunning =>
    /\ tx.called
    /\ \A n \in DOMAIN tx.prevContext.actions \cap DOMAIN tx.args.actions :
         /\ tx.cls[n] = EDIT
         /\ n \in DOMAIN tx.batch
         /\ tx.batch[n].operation = EDIT

\* a Scene edit that proposes what the scene already has
C8_Witness ==
  /\ SceneEditRunning
  /\ tx.pc = "awaiting"
  /\ tx.args.actions = tx.prevContext.actions
  /\ tx.args.name = tx.prevContext.name
  /\ tx.args.info = Undef
  /\ Cardinality(DOMAIN tx.args.actions) > 1
  /\ tx.called
  /\ \A n \in DOMAIN tx.args.actions : tx.batch[n].operation = EDIT

AllNoChange == \A n \in DOMAIN tx.cls : tx.cls[n] = NO_CHANGE

\* C9: Schedule.edit: a node classified NO_CHANGE has no payload in the batch;
\* when every node is classified NO_CHANGE no remote call is issued and the
\* operation resolves with a success entry for every node of the union of the
\* current and the proposed action map.
C9_NoChangeSkipsRemote ==
  ScheduleEditRunning =>
    /\ \A n \in DOMAIN tx.cls : tx.cls[n] = NO_CHANGE => n \notin DOMAIN tx.batch
    /\ AllNoChange =>
         /\ ~tx.called
         /\ tx.pc = "done" =>
              /\ tx.outcome = "resolved"
              /\ tx.result = [n \in DOMAIN tx.prevContext.action
                                      \cup DOMAIN tx.args.action |-> SUCCESS]

C9_Witness ==
  /\ ScheduleEditRunning
  /\ tx.pc = "done"
  /\ AllNoChange
  /\ ~tx.called
  /\ tx.outcome = "resolved"
  /\ DOMAIN tx.result = Nodes

\* the value of optional field f the caller of add() / edit() provided: add()
\* sends what createSchedule was given, edit() what it was passed or, for a
\* field it was not passed, what the schedule has
ProvidedValue(f) ==
  IF tx.op = EDIT /\ tx.args[f] = Undef THEN tx.prevContext[f] ELSE tx.args[f]

Absent(v) == v \in {Null, Undef}

\* C10: Schedule add() and edit(): every ADD or EDIT payload lacks the key of
\* an optional field (info, flags, validity) exactly when the field's value is
\* the absent sentinel, and carries the value the caller provided otherwise,
\* a falsy one such as flags = 0 included.
C10_OptionalFieldsInPayload ==
  (tx.kind = "schedule" /\ tx.op \in {ADD, EDIT} /\ tx.pc \in {"awaiting", "done"}) =>
    \A n \in DOMAIN tx.batch :
      tx.batch[n].operation \in {ADD, EDIT} =>
        \A f \in {"info", "flags", "validity"} :
          IF Absent(ProvidedValue(f))
          THEN f \notin WireKeys(tx.batch[n])
          ELSE f \in WireKeys(tx.batch[n]) /\ tx.batch[n][f] = ProvidedValue(f)

\* an add() of a Schedule that passed the constructor has run up to its remote
\* call or further
ScheduleAddRunning ==
  tx.kind = "schedule" /\ tx.op = ADD /\ tx.pc \in {"awaiting", "done"} /\ tx.hookOk

PayloadNodes == {n \in DOMAIN tx.cls : tx.cls[n] # NO_CHANGE}

\* C12: every invocation of add, edit, remove, enable, disable or activate
\* issues at most one remote call, whose batch holds the payloads of all nodes
\* of the invocation; the step after the call, a failure included, ends the
\* invocation with the same batch, the call is not issued again, and what
\* follows an ended invocation is a new invocation.
C12_OneCallNoRetry ==
  /\ [](tx.pc \in {"awaiting", "done"} =>
          /\ tx.called => DOMAIN tx.batch = PayloadNodes
          /\ ~tx.called => DOMAIN tx.batch = {})
  /\ [][tx.pc = "awaiting" =>
          /\ tx'.pc = "done"
          /\ tx'.remote \in {"returned", "threw"}
          /\ tx'.batch = tx.batch
          /\ tx'.called = tx.called
          /\ ops' = ops]_vars
  /\ [][tx.pc = "done" => ops' = ops + 1]_vars

\* an invocation with two payloads whose remote call has failed
C12_Witness ==
  /\ tx.pc = "done"
  /\ tx.called
  /\ tx.remote = "threw"
  /\ Cardinality(DOMAIN tx.batch) > 1

\* the ids of the fragments of a Node Registry cache
IdsIn(reg) == UNION {{reg[n][i].id : i \in 1..Len(reg[n])} : n \in Nodes}

\* the nodes that host a fragment of entity id, in iteration order
Hosts(reg, id) == SelectSeq(nodeList, LAMBDA n : FindIndex(reg[n], id) # 0)

\* node n's fragment of entity id
FragmentOn(reg, n, id) == reg[n][FindIndex(reg[n], id)]

SharedFields(kind) ==
  IF kind = "schedule" THEN {"name", "info", "triggers", "flags", "validity", "enabled"}
  ELSE {"name", "info"}

\* the entity has the fragment's value of a shared field: the same value, or
\* both have none, or enabled is false where the fragment reports none
SameShared(field, entityValue, fragmentValue) ==
  \/ entityValue = fragmentValue
  \/ Absent(entityValue) /\ Absent(fragmentValue)
  \/ field = "enabled" /\ entityValue = "false" /\ fragmentValue = Undef

ActionMapOf(kind, e) == IF kind = "schedule" THEN e.action ELSE e.actions

\* C13: Fragment Merge: the store holds one entity per id of the node list; its
\* shared fields are those of the fragment on the first hosting node in
\* iteration order, nodes lists exactly the hosting nodes in that order,
\* action[n] is node n's fragment action, and devicesCount is the sum of the
\* device counts of those fragments.
C13_MergedEntity ==
  tx.pc = "synced" =>
    LET reg == RegistryOf(tx.kind)
        store == StoreOf(tx.kind)
    IN /\ DOMAIN store = IdsIn(reg)
       /\ \A id \in IdsIn(reg) :
            LET hosts == Hosts(reg, id)
                e == store[id]
                map == ActionMapOf(tx.kind, e)
            IN /\ \A f \in SharedFields(tx.kind) :
                    SameShared(f, e[f], FragmentOn(reg, hosts[1], id)[f])
               /\ e.nodes = hosts
               /\ DOMAIN map = Range(hosts)
               /\ \A n \in Range(hosts) : map[n] = FragmentOn(reg, n, id).action
               /\ e.devicesCount =
                    SumOver([n \in Range(hosts) |->
                               DeviceCount(FragmentOn(reg, n, id).action)], Range(hosts))

FieldDiffers(f, aggregateValue, fragmentValue) ==
  IF f = "triggers" THEN ~TriggerListsEqual(aggregateValue, fragmentValue)
  ELSE ~Absent(fragmentValue) /\ aggregateValue # fragmentValue

\* C15: Schedule merge, Sync Check: for every node n that hosts an entity and
\* is not its first node, and every shared field among name, enabled,
\* triggers, validity, flags, info in which n's fragment differs from the
\* aggregate, outOfSyncMeta[n] holds that field with n's value.
C15_SyncCheckRecords ==
  (tx.pc = "synced" /\ tx.kind = "schedule") =>
    \A id \in DOMAIN schedulesByID :
      LET e == schedulesByID[id]
          hosts == Hosts(nodeSchedules, id)
      IN \A k \in 2..Len(hosts) :
           LET n == hosts[k]
               frag == FragmentOn(nodeSchedules, n, id)
           IN \A f \in Range(SyncKeys) :
                FieldDiffers(f, e[f], frag[f]) =>
                  /\ n \in DOMAIN e.outOfSyncMeta
                  /\ f \in DOMAIN e.outOfSyncMeta[n]
                  /\ e.outOfSyncMeta[n][f] = frag[f]

\* C16: merging two nodes that both host the same scene id and disagree on
\* name yields one Scene whose name is the first node's and whose
\* outOfSyncMeta has an entry for the second node that is exactly
\* {name: the second node's name}.
C16_SceneNameOutOfSync ==
  (tx.pc = "synced" /\ tx.kind = "scene") =>
    \A id \in IdsIn(nodeScenes) :
      LET hosts == Hosts(nodeScenes, id)
      IN (/\ Len(hosts) = 2
          /\ FragmentOn(nodeScenes, hosts[1], id).name
               # FragmentOn(nodeScenes, hosts[2], id).name
          /\ FragmentOn(nodeScenes, hosts[1], id).info
               = FragmentOn(nodeScenes, hosts[2], id).info) =>
           /\ id \in DOMAIN scenesByID
           /\ scenesByID[id].name = FragmentOn(nodeScenes, hosts[1], id).name
           /\ "outOfSyncMeta" \in DOMAIN scenesByID[id]
           /\ scenesByID[id].outOfSyncMeta =
                (hosts[2] :> [name |-> FragmentOn(nodeScenes, hosts[2], id).name])

\* the Fragment Merge over all nodes of the Node Registry as it is now
FullScheduleMerge == syncSchedulesFromNodes(nodeSchedules, Nodes)

\* C17: an edit of a multi-node schedule, in sync before, in which some nodes
\* report success and one node reports failure: a subsequent Fragment Merge
\* over all nodes records no outOfSyncMeta entry for a node that succeeded,
\* wherever the failed node stands in the iteration order.
C17_NoOutOfSyncForSucceeded ==
  (/\ RemoteReturned
   /\ tx.kind = "schedule"
   /\ tx.op = EDIT
   /\ tx.outcome = "resolved"
   /\ Succeeded(tx.result) # {}
   /\ Cardinality(DOMAIN tx.result \ Succeeded(tx.result)) = 1
   /\ DOMAIN tx.storeBefore[tx.id].outOfSyncMeta = {}
   /\ tx.id \in DOMAIN FullScheduleMerge) =>
    \A n \in Succeeded(tx.result) :
      n \notin DOMAIN FullScheduleMerge[tx.id].outOfSyncMeta

\* C18: in every reachable state every key of the action map of every Schedule
\* and Scene held in its store is a member of the entity's nodes list: after
\* createSchedule / createScene, after every merge, and while an edit that
\* adds a node awaits its remote call.
C18_ActionKeysInNodes ==
  /\ \A id \in DOMAIN schedulesByID :
       DOMAIN schedulesByID[id].action \subseteq Range(schedulesByID[id].nodes)
  /\ \A id \in DOMAIN scenesByID :
       DOMAIN scenesByID[id].actions \subseteq Range(scenesByID[id].nodes)

\* C19: in every reachable state devicesCount of every Schedule and Scene held
\* in its store equals the sum, over the nodes of its action map, of the number
\* of device entries of the node's blob; the optimistic step of edit
\* recomputes it to that sum.
C19_DevicesCountIsSum ==
  /\ \A id \in DOMAIN schedulesByID :
       schedulesByID[id].devicesCount = CountDevices(schedulesByID[id].action)
  /\ \A id \in DOMAIN scenesByID :
       scenesByID[id].devicesCount = CountDevices(scenesByID[id].actions)

\* the action map createSchedule / createScene was given
CreateActions == IF tx.kind = "schedule" THEN tx.args.action ELSE tx.args.actions

\* C20: createSchedule and createScene with an empty action map: the creation
\* is rejected with the validation error before any remote call, and the store
\* is as it was, the entity never being added to it.
C20_EmptyActionRejected ==
  (tx.op = ADD /\ tx.pc \in {"awaiting", "done"} /\ DOMAIN CreateActions = {}) =>
    /\ tx.pc = "done"
    /\ tx.outcome = "rejected"
    /\ tx.err = "validation"
    /\ ~tx.called
    /\ StoreOf(tx.kind) = tx.storeBefore

\* a trigger list with a trigger that has neither m nor rsec
HasBadTrigger(triggers) ==
  \E i \in 1..Len(triggers) : triggers[i].m = Undef /\ triggers[i].rsec = Undef

\* C21: createSchedule with an empty action map, or with a trigger that has
\* neither m nor rsec: it throws the validation error, no remote call is
\* issued, and the ScheduleStore is exactly as it was.
C21_CreateScheduleValidates ==
  (/\ tx.kind = "schedule"
   /\ tx.op = ADD
   /\ tx.pc \in {"awaiting", "done"}
   /\ DOMAIN tx.args.action = {} \/ HasBadTrigger(tx.args.triggers)) =>
    /\ tx.pc = "done"
    /\ tx.outcome = "rejected"
    /\ tx.err = "validation"
    /\ ~tx.called
    /\ tx.remote = "none"
    /\ schedulesByID = tx.storeBefore

\* a createSchedule with a bad trigger, rejected after an earlier transaction
\* has left schedules in the store
C21_Witness ==
  /\ tx.kind = "schedule"
  /\ tx.op = ADD
  /\ tx.pc = "done"
  /\ HasBadTrigger(tx.args.triggers)
  /\ tx.err = "validation"
  /\ schedulesByID = tx.storeBefore
  /\ DOMAIN schedulesByID # {}

\* C22: Schedule.edit with arguments for which the resulting schedule fails
\* validation (an empty proposed action map, a trigger with neither m nor
\* rsec): no remote call is issued and the edit rejects with the validation
\* error.
C22_EditValidates ==
  (/\ ScheduleEditRunning
   /\ DOMAIN tx.args.action = {} \/ HasBadTrigger(tx.args.triggers)) =>
    /\ tx.pc = "done"
    /\ ~tx.called
    /\ tx.outcome = "rejected"
    /\ tx.err = "validation"

\* C23: the batched remote call of a Schedule or Scene mutation (add, edit,
\* remove, enable, disable) throws the error E: the promise the caller holds
\* rejects with E itself.
C23_RejectsWithRemoteError ==
  (RemoteThrew /\ tx.op \in {ADD, EDIT, REMOVE, ENABLE, DISABLE}) =>
    tx.outcome = "rejected" /\ tx.err = "remote"

\* the transaction runs under an interceptor (scene.activate() has none, and a
\* createSchedule that fails validation never reaches add())
Intercepted == tx.pc \in {"awaiting", "done"} /\ tx.op # ACTIVATE /\ tx.err # "validation"

\* the action hook of the transaction threw
ActionHookThrew == Intercepted /\ ~tx.hookOk

\* C24: createInterceptor: whenever the action hook or the wrapped operation
\* throws, the rollback hook is called exactly once and the error is rethrown
\* to the caller (no interceptor of the stores registers onError); after a
\* throw of the action hook the wrapped operation is not run.
C24_RollbackOnThrow ==
  /\ (Intercepted /\ RemoteThrew) => tx.rolledBack = 1 /\ tx.outcome = "rejected"
  /\ ActionHookThrew =>
       /\ tx.pc = "done"
       /\ ~tx.called
       /\ tx.rolledBack = 1
       /\ tx.outcome = "rejected"

\* the remote call returned a result list in which some node reports
\* non-success
PartialFailure == RemoteReturned /\ Succeeded(tx.result) # DOMAIN tx.result

\* C25: the batched call returns a result list in which some nodes report
\* non-success: the operation resolves with the complete per-node result list
\* and the rollback hook is not invoked.
C25_PartialFailureResolves ==
  PartialFailure =>
    /\ tx.outcome = "resolved"
    /\ DOMAIN tx.result = DOMAIN tx.batch
    /\ tx.rolledBack = 0

\* C26: in a single transaction at most one of the onSuccess hook
\* (Reconciling) and the rollback hook (RollingBack) is entered: once the
\* remote call has returned, rollback is not invoked.
C26_ReconcileOrRollback ==
  Intercepted =>
    /\ ~(tx.reconciled /\ tx.rolledBack > 0)
    /\ tx.remote = "returned" => tx.rolledBack = 0

\* C27: an edit transaction on a Schedule or Scene has ended, by success or by
\* failure: callbackUpdateOperation is empty on the store's entry of the
\* entity and on the object edit was called on.
C27_NoLeftoverClassification ==
  (Ended /\ tx.op = EDIT) =>
    /\ tx.context.callbackUpdateOperation = EmptyMap
    /\ tx.id \in DOMAIN StoreOf(tx.kind) =>
         StoreOf(tx.kind)[tx.id].callbackUpdateOperation = EmptyMap

\* the nodes of the group as the action hook of the invocation left them
Applied(c) ==
  IF c.op = "addNodes" THEN addNodeAction(c.prevContext, c.args).nodes
  ELSE removeNodeAction(c.prevContext, c.args).nodes

\* C28: T2 (addNodes / removeNodes) starts on a group while T1 on the same
\* group awaits its remote call with its optimistic nodes in place: the
\* snapshot of T2 holds the nodes T1's action hook wrote. When the remote call
\* of T1 throws, the group's nodes become those of T1's own snapshot, whatever
\* later invocations wrote; and the return of a remote call changes no group,
\* so a T2 that succeeds does not bring its change back.
C28_OverlappingNodeCalls ==
  [][/\ \A j \in InFlight :
          (/\ Len(calls') = Len(calls) + 1
           /\ calls[j].op \in NodeOps
           /\ calls'[Len(calls')].op \in NodeOps
           /\ calls'[Len(calls')].path = calls[j].path
           /\ GroupAt(groupsByID, calls[j].path).nodes = Applied(calls[j]))
          => calls'[Len(calls')].prevContext.nodes = Applied(calls[j])
     /\ \A j \in InFlight :
          (/\ Len(calls') = Len(calls)
           /\ calls[j].op \in NodeOps
           /\ calls'[j].outcome = "rejected")
          => GroupAt(groupsByID', calls[j].path).nodes = calls[j].prevContext.nodes
     /\ \A k \in InFlight :
          (/\ Len(calls') = Len(calls)
           /\ calls[k].op \in NodeOps
           /\ calls'[k].outcome = "resolved")
          => groupsByID' = groupsByID]_vars

\* T1 was rejected and T2, an addNodes whose snapshot holds T1's optimistic
\* nodes, was resolved: the group has the nodes of T1's snapshot, and the node
\* T2 added is not among them
C28_Witness ==
  /\ Len(calls) = 2
  /\ calls[1].op \in NodeOps
  /\ calls[2].op = "addNodes"
  /\ calls[1].path = calls[2].path
  /\ calls[1].outcome = "rejected"
  /\ calls[2].outcome = "resolved"
  /\ calls[2].prevContext.nodes = Applied(calls[1])
  /\ calls[2].prevContext.nodes # calls[1].prevContext.nodes
  /\ GroupAt(groupsByID, calls[1].path).nodes = calls[1].prevContext.nodes
  /\ calls[2].args[1] \notin Range(GroupAt(groupsByID, calls[1].path).nodes)

\* C29: delete (or leave) on a subgroup whose remote call threw, as the first
\* transaction on the store: the subgroup is in the subGroups list of its
\* parent and groupsByID has the keys it had before the call.
C29_SubgroupDeleteRestored ==
  (/\ Len(calls) = 1
   /\ calls[1].op \in DeleteOps
   /\ Len(calls[1].path) = 2
   /\ calls[1].outcome = "rejected")
  => /\ FindIndex(groupsByID[calls[1].path[1]].subGroups, calls[1].path[2]) # 0
     /\ DOMAIN groupsByID = DOMAIN InitGroups

\* C30: automation.update(details) whose remote call threw, as the only
\* transaction on the automation: the automation has the fields it had before
\* the call, each with the value it had, and no other field.
C30_UpdateRestoresAutomation ==
  (/\ Len(calls) = 1
   /\ calls[1].op = "update"
   /\ calls[1].outcome = "rejected")
  => automation = calls[1].prevContext

\* C31: createSchedule / createScene with an id the store does not hold:
\* while the remote add call is pending the store holds the entity, and once
\* that call has thrown the id is absent from the store and the caller is
\* rejected with the error of the remote call.
C31_CreateOptimisticThenUndone ==
  (tx.op = ADD /\ tx.called /\ tx.id \notin DOMAIN tx.storeBefore) =>
    /\ tx.pc = "awaiting" =>
         /\ tx.id \in DOMAIN StoreOf(tx.kind)
         /\ StoreOf(tx.kind)[tx.id] = tx.context
    /\ RemoteThrew =>
         /\ tx.id \notin DOMAIN StoreOf(tx.kind)
         /\ tx.outcome = "rejected"
         /\ tx.err = "remote"

C31_Witness ==
  /\ RemoteThrew
  /\ tx.op = ADD
  /\ tx.kind = "scene"
  /\ tx.id \notin DOMAIN tx.storeBefore
  /\ tx.id \notin DOMAIN scenesByID

\* the ids of the groups of a page
GroupIds(groups) == {groups[i].id : i \in 1..Len(groups)}

\* C32: after syncNodeList (syncGroupList) has completed, the store holds
\* exactly the nodes (groups) of the fetched first page.
C32_StoreIsFirstPage ==
  (calls # <<>>) =>
    LET last == calls[Len(calls)]
    IN  /\ last.op = "syncNodeList" => nodesByID = last.args
        /\ last.op = "syncGroupList" =>
             /\ DOMAIN groupsByID = GroupIds(last.args)
             /\ \A i \in 1..Len(last.args) : groupsByID[last.args[i].id] = last.args[i]

\* the syncGroupList half of that property
C32_GroupStoreIsFirstPage ==
  (calls # <<>> /\ calls[Len(calls)].op = "syncGroupList") =>
    /\ DOMAIN groupsByID = GroupIds(calls[Len(calls)].args)
    /\ \A i \in 1..Len(calls[Len(calls)].args) :
         groupsByID[calls[Len(calls)].args[i].id] = calls[Len(calls)].args[i]

\* C33: a Schedule or Scene edit whose arguments pass the constructor's
\* validation is awaiting its remote call: the store's entry for the id has
\* the proposed name and the proposed action map.
C33_OptimisticEdit ==
  (tx.pc = "awaiting" /\ tx.op = EDIT /\ tx.hookOk) =>
    /\ tx.id \in DOMAIN StoreOf(tx.kind)
    /\ StoreOf(tx.kind)[tx.id].name = tx.args.name
    /\ ActionMapOf(tx.kind, StoreOf(tx.kind)[tx.id]) = ActionMapOf(tx.kind, tx.args)

C33_Witness ==
  /\ tx.pc = "awaiting"
  /\ tx.op = EDIT
  /\ tx.kind = "schedule"
  /\ tx.hookOk
  /\ tx.called
  /\ tx.args.name # tx.prevContext.name
  /\ tx.args.action # tx.prevContext.action
  /\ schedulesByID[tx.id].name = tx.args.name
  /\ schedulesByID[tx.id].action = tx.args.action

\* every node that hosts entity id caches the same values of the shared fields
FragmentsAgree(reg, id) ==
  \A k \in 1..Len(Hosts(reg, id)) : \A f \in Range(SyncKeys) :
    FragmentOn(reg, Hosts(reg, id)[k], id)[f] = FragmentOn(reg, Hosts(reg, id)[1], id)[f]

\* C34: Schedule merge: an entity whose fragments all carry the same name,
\* enabled, triggers, validity, flags and info has an empty outOfSyncMeta,
\* whatever those values are (flags = 0 and enabled = false included).
C34_AgreeingFragmentsInSync ==
  (tx.pc = "synced" /\ tx.kind = "schedule") =>
    \A id \in DOMAIN schedulesByID :
      FragmentsAgree(nodeSchedules, id) => schedulesByID[id].outOfSyncMeta = EmptyMap

\* the other transaction was a remove() of entity id in which every node
\* succeeded
RemovedByOther(id) ==
  /\ calls # <<>>
  /\ calls[1].pc = "done"
  /\ calls[1].op = REMOVE
  /\ calls[1].id = id
  /\ calls[1].outcome = "resolved"
  /\ \A n \in DOMAIN calls[1].result : calls[1].result[n] = SUCCESS

\* C35: a remove() in which every node succeeded has deleted the entity from
\* the store while the transaction tx on that entity was in flight: the step
\* that completes tx leaves the entity out of the store.
C35_RemovedStaysRemoved ==
  [][(/\ tx.pc = "awaiting"
      /\ tx'.pc = "done"
      /\ RemovedByOther(tx.id)
      /\ tx.id \notin DOMAIN StoreOf(tx.kind))
     => tx.id \notin DOMAIN (IF tx.kind = "schedule" THEN schedulesByID' ELSE scenesByID')]_vars

\* C36: the step that completes the transaction on entity X, whatever ran
\* before it, leaves the cached fragments of every other entity on every node
\* of the Node Registry as they were.
C36_OtherEntitiesUntouched ==
  [][tx.pc = "awaiting" =>
       \A n \in Nodes :
         /\ Others(nodeSchedules'[n], tx.id) = Others(nodeSchedules[n], tx.id)
         /\ Others(nodeScenes'[n], tx.id) = Others(nodeScenes[n], tx.id)]_vars

\* C37: the step that completes a Schedule edit in which every node was
\* classified NO_CHANGE, whatever ran before on the schedule object, leaves
\* the cached schedule lists of the Node Registry as they were.
C37_NoChangeKeepsRegistry ==
  [][(/\ ScheduleAwaiting(EDIT)
      /\ AllNoChange
      /\ tx'.pc = "done")
     => nodeSchedules' = nodeSchedules]_vars

\* the value a payload carries to the node for field f (undefined: no such key)
Carried(payload, f) == IF f \in WireKeys(payload) THEN payload[f] ELSE Undef

\* a cached fragment has the values of the payload in the fields the two
\* share; two absent values (null, undefined, no key) count as the same
MatchesPayload(fragment, payload) ==
  /\ fragment.action = payload.action
  /\ fragment.triggers = payload.triggers
  /\ \A f \in {"name", "info", "flags", "validity"} :
       \/ fragment[f] = Carried(payload, f)
       \/ Absent(fragment[f]) /\ Absent(Carried(payload, f))

\* C38: a Schedule add() or edit() has resolved: on every node that reported
\* success for an ADD or EDIT payload, the node's cached list holds a fragment
\* of the schedule with the name, info, action, triggers, flags and validity
\* of the payload that was sent to that node.
C38_FragmentIsPayload ==
  (/\ RemoteReturned
   /\ tx.kind = "schedule"
   /\ tx.op \in {ADD, EDIT}
   /\ tx.outcome = "resolved") =>
    \A n \in Succeeded(tx.result) \cap DOMAIN tx.batch :
      tx.batch[n].operation \in {ADD, EDIT} =>
        \E i \in 1..Len(nodeSchedules[n]) :
          /\ nodeSchedules[n][i].id = tx.id
          /\ MatchesPayload(nodeSchedules[n][i], tx.batch[n])

\* the ids of the fragments of a cached list, in list order
FragmentIds(list) == [i \in 1..Len(list) |-> list[i].id]

\* no value occurs twice in the sequence
NoRepeat(s) == \A i, j \in 1..Len(s) : s[i] = s[j] => i = j

\* C39: in every reachable state every node's cached schedule list and cached
\* scene list holds at most one fragment per entity id, no entity of a store
\* lists a node id twice, and devicesCount counts each node's blob once.
C39_OneFragmentPerEntity ==
  /\ \A n \in Nodes :
       NoRepeat(FragmentIds(nodeSchedules[n])) /\ NoRepeat(FragmentIds(nodeScenes[n]))
  /\ \A id \in DOMAIN schedulesByID :
       /\ NoRepeat(schedulesByID[id].nodes)
       /\ schedulesByID[id].devicesCount <= CountDevices(schedulesByID[id].action)
  /\ \A id \in DOMAIN scenesByID :
       /\ NoRepeat(scenesByID[id].nodes)
       /\ scenesByID[id].devicesCount <= CountDevices(scenesByID[id].actions)

\* C40: every started transaction eventually ends: once the operation is
\* waiting for its remote call, and given that the call settles, the promise
\* of the intercepted operation is eventually resolved or rejected and the
\* transaction is over, no hook of it still to run.
C40_TransactionEnds ==
  (tx.pc = "awaiting") ~> (Ended /\ tx.outcome \in {"resolved", "rejected"})

C40_Witness ==
  /\ Ended
  /\ tx.remote \in {"returned", "threw"}
  /\ tx.outcome \in {"resolved", "rejected"}
  /\ ops = MaxOps

====
